---- MODULE Spec2Model ----
(***************************************************************************)
(* Coordination layer of the multi-agent system: MCPServer (registry,      *)
(* task dispatch, shared context) and WorkflowOrchestrator (stage          *)
(* sequencing).  An async method is modelled by one action per synchronous *)
(* segment: from its call or resumption up to the next await or its        *)
(* return.                                                                 *)
(***************************************************************************)
EXTENDS Integers, Sequences, FiniteSets, TLC

\* ------------------------------------------------------------------ bounds
MaxRegs == 2           \* registerAgent calls
MaxCreated == 1        \* createTask calls (SpecDispatch)
MaxClientCalls == 2    \* executeTask calls made directly by a client (SpecDispatch)
MaxUpdates == 1        \* client updateSharedContext calls (SpecDispatch)
MaxDefines == 2        \* defineWorkflow calls (Spec)
MaxRuns == 1           \* executeWorkflow calls (Spec)
MaxWfCreated == 1      \* createTask calls (Spec)
MaxWfClientCalls == 1  \* executeTask calls made directly by a client (Spec)
MaxRegistryRegs == 3   \* registerAgent calls (SpecRegistry)
MaxRegistryUpdates == 1  \* updateSharedContext calls (SpecRegistry)
MaxRouterRegs == 2     \* registerAgent calls (SpecRouter)
MaxRouted == 2         \* routeMessage calls (SpecRouter)
MaxClears == 1         \* clearMessages calls (SpecRouter)
MaxBatch == 3          \* createTask calls (SpecQueue)
MaxBatchCalls == 2     \* executeTask calls (SpecQueue)
MaxStores == 3         \* storeArtifact calls (SpecArtifacts)
MaxAside == 1          \* calls of each other operation (SpecArtifacts)
MaxWrites == 2         \* updateSharedContext calls (SpecWrites)
MaxTwinRuns == 2       \* executeWorkflow calls (SpecTwin)

\* ------------------------------------------------------- inputs and values
\* AgentRole members used by the model
Roles == {"ProductManager", "QA"}

\* worker instances a caller can construct; two of them share a role
Workers == {"pm-agent-001", "pm-agent-002", "qa-agent-001"}

\* the workers initializeSystem registers: one per role
DefaultWorkers == {"pm-agent-001", "qa-agent-001"}

\* BaseAgent.getContext().role
RoleOf(w) == IF w = "qa-agent-001" THEN "QA" ELSE "ProductManager"

\* to arguments of routeMessage: a role may be absent, or named twice
ToChoices == { <<>>, <<"QA">>, <<"ProductManager", "QA">>, <<"QA", "QA">> }

\* the Message a caller hands to routeMessage; id tells the calls apart
Message(n, to) == [ id |-> n, from |-> "Architect", to |-> to ]

\* name and content arguments of storeArtifact
ArtifactNames == {"design", "code"}
ArtifactContents == {"v1", "v2"}

\* TaskStatus
Pending == "pending"
InProgress == "in-progress"
Completed == "completed"

\* assignedTo arguments of createTask
AssignChoices == { <<>>, <<"ProductManager", "QA">>, <<"QA", "ProductManager">> }

\* Uuid that yields the same id at every call
UuidFixed(n) == "uuid-1"

\* ids produced by crypto.randomUUID() in createTask: the n-th call gets the
\* n-th fresh id
Uuid(n) == IF n = 1 THEN "uuid-1" ELSE IF n = 2 THEN "uuid-2"
           ELSE IF n = 3 THEN "uuid-3" ELSE "uuid-4"

\* Task objects built by the caller and placed in workflow stages: the first
\* names a dependency that is no task's id, the second depends on the first
StageTasks == {"q1", "q2"}

\* Task objects built for the stages of a second orchestrator's workflow
PeerTasks == {"q3", "q4"}

StageTaskObject(ref) ==
    IF ref = "q1"
    THEN [id |-> "task-001", assignedTo |-> <<"ProductManager", "QA">>,
          status |-> Pending, completedAt |-> FALSE,
          dependencies |-> << "task-design" >>]
    ELSE IF ref = "q2"
    THEN [id |-> "task-002", assignedTo |-> <<"QA">>,
          status |-> Pending, completedAt |-> FALSE,
          dependencies |-> << "task-001" >>]
    ELSE IF ref = "q3"
    THEN [id |-> "task-003", assignedTo |-> <<"QA">>,
          status |-> Pending, completedAt |-> FALSE,
          dependencies |-> <<>>]
    ELSE [id |-> "task-004", assignedTo |-> <<"ProductManager">>,
          status |-> Pending, completedAt |-> FALSE,
          dependencies |-> <<>>]

\* WorkflowOrchestrator.createStage
createStage(id, tasks, successCriteria) ==
    [id |-> id, tasks |-> tasks, successCriteria |-> successCriteria]

\* stages arguments of defineWorkflow
WorkflowDefs ==
    { << createStage("stage-001", <<"q1">>, <<"Requirements documented">>),
         createStage("stage-002", <<"q2">>, <<>>) >>,
      << createStage("stage-003", <<>>, <<>>),
         createStage("stage-004", <<"q2", "q1">>, <<"Plan complete">>) >> }

\* stages arguments of defineWorkflow of two orchestrators whose workflows
\* share no task
OwnStages ==
    << createStage("stage-001", <<"q1">>, <<"Requirements documented">>),
       createStage("stage-002", <<"q2">>, <<>>) >>
PeerStages ==
    << createStage("stage-005", <<"q4", "q3">>, <<"Shipped">>) >>

NoWorkflow == [id |-> 0, stages |-> <<>>]
NoStage == createStage("", <<>>, <<>>)

\* values of type unknown held by the shared context
Undefined == [kind |-> "undefined", items |-> <<>>, tag |-> ""]
ResponseValue(resp) == [kind |-> "AgentResponse", items |-> <<resp>>, tag |-> ""]
ListValue(resps) == [kind |-> "AgentResponse[]", items |-> resps, tag |-> ""]
ClientValue(v) == [kind |-> "value", items |-> <<>>, tag |-> v]

\* ----------------------------------------------------------------- state
VARIABLES
    agents,          \* MCPServer.agents: entries [role, agent] in insertion order
    tasks,           \* Task objects: ref -> [id, assignedTo, status, completedAt]
    taskQueue,       \* MCPServer.taskQueue: sequence of Task refs
    pendingTasks,    \* companyState.pendingTasks: sequence of Task refs
    completedTasks,  \* companyState.completedTasks: sequence of Task refs
    sharedContext,   \* MCPServer.sharedContext: key -> value
    calls,           \* activations of executeTask
    currentWorkflow, \* WorkflowOrchestrator.currentWorkflow
    peerWorkflow,    \* currentWorkflow of a second WorkflowOrchestrator made on
                     \* the same MCPServer
    runs,            \* activations of executeWorkflow
    messageHistory,  \* companyState.messageHistory: sequence of Messages
    messageQueue,    \* BaseAgent.messageQueue of every worker: sequence of Messages
    agentContext,    \* BaseAgent.context.sharedContext of every worker
    artifacts,       \* companyState.artifacts: id -> content
    regLog,          \* history (SpecRegistry): the registerAgent calls, in call order
    nRouted,         \* number of routeMessage calls so far (numbers the messages)
    lastArgs,        \* history: arguments of the latest updateSharedContext or
                     \* storeArtifact call
    nCreated,        \* number of createTask calls so far (selects the fresh id)
    nDefines,        \* number of defineWorkflow calls so far (selects the fresh id)
    budget           \* calls of each operation the environment may still make

vars == << agents, tasks, taskQueue, pendingTasks, completedTasks, sharedContext, calls,
           currentWorkflow, peerWorkflow, runs, messageHistory, messageQueue,
           agentContext,
           artifacts, regLog, nRouted, lastArgs,
           nCreated, nDefines, budget >>

\* the router's and the artifact store's part of the state with the history
\* of the clients' writes, and the workers' side of the registry
mailVars == << messageHistory, messageQueue, artifacts, nRouted, lastArgs >>
regVars == << agentContext, regLog >>

\* --------------------------------------------------------------- helpers
Last(s) == s[Len(s)]

SeqToSet(s) == { s[k] : k \in 1..Len(s) }

Count(s, x) == Cardinality({ k \in 1..Len(s) : s[k] = x })

\* Array.prototype.slice in the place of splice: the array is left as it is
Slice(s, index) == s

\* Array.prototype.splice(index, 1)
Splice(s, index) == [ k \in 1..(Len(s) - 1) |-> IF k < index THEN s[k] ELSE s[k + 1] ]

\* MapSet that drops every other key
MapSetSingle(m, key, value) == [ k \in {key} |-> value ]

\* MapSet that leaves the value of an existing key as it is
MapSetIfAbsent(m, key, value) ==
    [ k \in (DOMAIN m) \cup {key} |-> IF k \in DOMAIN m THEN m[k] ELSE value ]

\* Map.prototype.set on a string-keyed map held as a function
MapSet(m, key, value) ==
    [ k \in (DOMAIN m) \cup {key} |-> IF k = key THEN value ELSE m[k] ]

\* Map.prototype.get
MapGet(m, key) == IF key \in DOMAIN m THEN m[key] ELSE Undefined

\* EntrySet that deletes an existing key first, so that its entry moves to
\* the end
EntrySetMoveToEnd(entries, key, value) ==
    LET IsOther(e) == e.key # key
    IN  Append(SelectSeq(entries, IsOther), [key |-> key, value |-> value])

\* EntrySet that leaves the entry of an existing key as it is
EntrySetIfAbsent(entries, key, value) ==
    IF \E k \in 1..Len(entries) : entries[k].key = key
    THEN entries
    ELSE Append(entries, [key |-> key, value |-> value])

\* Map.prototype.set on a map held as entries in insertion order: an existing
\* key keeps its position
EntrySet(entries, key, value) ==
    IF \E k \in 1..Len(entries) : entries[k].key = key
    THEN [ k \in 1..Len(entries) |->
             IF entries[k].key = key THEN [key |-> key, value |-> value]
             ELSE entries[k] ]
    ELSE Append(entries, [key |-> key, value |-> value])

EntryKeys(entries) == [ k \in 1..Len(entries) |-> entries[k].key ]

\* the coordinator-side state handed through a synchronous segment
State == [ tasks |-> tasks, pendingTasks |-> pendingTasks,
           completedTasks |-> completedTasks, sharedContext |-> sharedContext,
           calls |-> calls, runs |-> runs ]

Commit(s) ==
    /\ tasks' = s.tasks
    /\ pendingTasks' = s.pendingTasks
    /\ completedTasks' = s.completedTasks
    /\ sharedContext' = s.sharedContext
    /\ calls' = s.calls
    /\ runs' = s.runs

\* the key a client passes to updateSharedContext: one that executeTask writes too
ClientKeys == {"task_uuid-1_QA"}

\* keys and values a client passes to updateSharedContext in SpecWrites: keys
\* that executeTask and executeWorkflow write too
WriteKeys == {"task_task-002_QA", "stage_stage-001_results"}
WriteValues == {"v1", "v2"}

\* ------------------------------------------------------------- BaseAgent
\* context.sharedContext of a worker that was never registered
NoContext == [ bound |-> FALSE, byRef |-> FALSE, copy |-> << >> ]

\* setSharedContext that stores a copy of the map it is given
setSharedContextCopy(ctx) == [ bound |-> TRUE, byRef |-> FALSE, copy |-> ctx ]

\* BaseAgent.setSharedContext: the field holds the very map it is given
setSharedContext(ctx) == [ bound |-> TRUE, byRef |-> TRUE, copy |-> << >> ]

\* receiveMessage that puts the message at the head of the queue
receiveMessageUnshift(queue, message) == << message >> \o queue

\* BaseAgent.receiveMessage
receiveMessage(queue, message) == Append(queue, message)

\* BaseAgent.getMessages
getMessages(w) == messageQueue[w]

\* BaseAgent.clearMessages
clearMessages(queue) == <<>>

\* ------------------------------------------------------------- MCPServer
\* MCPServer.getAgent
getAgent(role) ==
    IF \E k \in 1..Len(agents) : agents[k].key = role
    THEN (CHOOSE e \in SeqToSet(agents) : e.key = role).value
    ELSE "undefined"

\* MCPServer.getAllAgents
getAllAgents == [ k \in 1..Len(agents) |-> agents[k].value ]

\* MCPServer.getArtifact
getArtifact(name) == MapGet(artifacts, name)

\* MCPServer.getSharedContextValue
getSharedContextValue(key) == MapGet(sharedContext, key)

\* HistoryPush that records a message only when some recipient has an agent
HistoryPushIfDelivered(history, message) ==
    IF \E k \in 1..Len(message.to) : getAgent(message.to[k]) # "undefined"
    THEN Append(history, message) ELSE history

\* routeMessage, this.companyState.messageHistory.push(message)
HistoryPush(history, message) == Append(history, message)

\* SkipRecipient that leaves the loop at the first recipient without an agent
AbortDelivery(message, k) == Len(message.to) + 1

\* routeMessage, a recipient role without an agent: the loop goes on with the
\* next entry of message.to
SkipRecipient(message, k) == k + 1

\* routeMessage's loop over message.to from entry k on: the queues of all
\* workers afterwards
RECURSIVE Deliver(_, _, _)
Deliver(queues, message, k) ==
    IF k > Len(message.to) THEN queues
    ELSE LET agent == getAgent(message.to[k])
         IN  IF agent = "undefined"
             THEN Deliver(queues, message, SkipRecipient(message, k))
             ELSE Deliver([ queues EXCEPT ![agent] = receiveMessage(@, message) ],
                          message, k + 1)

\* TaskKey with another separator
TaskKeyColon(id, role) == "task:" \o id \o ":" \o role

\* key of a per-(task, role) response in executeTask
TaskKey(id, role) == "task_" \o id \o "_" \o role

\* key of a stage's results in executeWorkflow
StageKey(id) == "stage_" \o id \o "_results"

\* FindPendingIndex with a predicate every task satisfies
FindPendingAny(s, id) == IF Len(s.pendingTasks) > 0 THEN 1 ELSE 0

\* the index pendingTasks.findIndex((t) => t.id === task.id) yields; 0 for -1
FindPendingIndex(s, id) ==
    IF \E k \in 1..Len(s.pendingTasks) : s.tasks[s.pendingTasks[k]].id = id
    THEN CHOOSE k \in 1..Len(s.pendingTasks) :
            /\ s.tasks[s.pendingTasks[k]].id = id
            /\ \A j \in 1..(k - 1) : s.tasks[s.pendingTasks[j]].id # id
    ELSE 0

\* PendingAfterMove without the splice
PendingKept(s, ref) == s.pendingTasks

\* executeTask, "Move to completed tasks": pendingTasks after the move
PendingAfterMove(s, ref) ==
    LET pendingIndex == FindPendingIndex(s, s.tasks[ref].id)
    IN  IF pendingIndex > 0 THEN Splice(s.pendingTasks, pendingIndex)
        ELSE s.pendingTasks

\* CompletedAfterMove that skips a task already in completedTasks
CompletedOnce(s, ref) ==
    IF ref \in SeqToSet(s.completedTasks) THEN s.completedTasks
    ELSE Append(s.completedTasks, ref)

\* executeTask, "Move to completed tasks": completedTasks after the move
CompletedAfterMove(s, ref) == Append(s.completedTasks, ref)

\* Finalize that completes the task only when some agent responded
FinalizeIfResponded(s, c) ==
    LET ref == s.calls[c].task
    IN  IF s.calls[c].responses = <<>>
        THEN [ s EXCEPT !.tasks[ref].status = "failed", !.calls[c].pc = "done" ]
        ELSE [ s EXCEPT !.tasks[ref].status = Completed,
                        !.tasks[ref].completedAt = TRUE,
                        !.pendingTasks = PendingAfterMove(s, ref),
                        !.completedTasks = CompletedAfterMove(s, ref),
                        !.calls[c].pc = "done" ]

\* Finalize that moves the task without setting its status
FinalizeKeepStatus(s, c) ==
    LET ref == s.calls[c].task
    IN  [ s EXCEPT !.pendingTasks = PendingAfterMove(s, ref),
                   !.completedTasks = CompletedAfterMove(s, ref),
                   !.calls[c].pc = "done" ]

\* executeTask from the end of the role loop to its return
Finalize(s, c) ==
    LET ref == s.calls[c].task
    IN  [ s EXCEPT !.tasks[ref].status = Completed,
                   !.tasks[ref].completedAt = TRUE,
                   !.pendingTasks = PendingAfterMove(s, ref),
                   !.completedTasks = CompletedAfterMove(s, ref),
                   !.calls[c].pc = "done" ]

\* OnNoAgent that emits a response with confidence 0 for the role and stores
\* it in the shared context
OnNoAgentPlaceholder(s, c) ==
    LET call == s.calls[c]
        role == s.tasks[call.task].assignedTo[call.i]
        response == [ agentId |-> "undefined", agentRole |-> role,
                      taskId |-> s.tasks[call.task].id, confidence |-> 0,
                      errors |-> << "AgentNotRegistered" >>,
                      seq |-> << c, call.i >> ]
    IN  [ s EXCEPT
            !.calls[c].responses = Append(@, response),
            !.sharedContext =
                MapSet(@, TaskKey(s.tasks[call.task].id, role),
                       ResponseValue(response)),
            !.calls[c].i = @ + 1,
            !.calls[c].visited =
                Append(@, [role |-> role, agent |-> "undefined",
                           outcome |-> "skipped"]) ]

\* executeTask, one iteration of the role loop for a role whose getAgent is
\* undefined: the body of if (agent) is not entered
OnNoAgent(s, c) ==
    LET call == s.calls[c]
        role == s.tasks[call.task].assignedTo[call.i]
    IN  [ s EXCEPT
            !.calls[c].i = @ + 1,
            !.calls[c].visited =
                Append(@, [role |-> role, agent |-> "undefined",
                           outcome |-> "skipped"]) ]

\* executeTask's role loop from role number calls[c].i up to the next await of
\* agent.execute, or to the return when no further role has an agent
RECURSIVE RoleLoop(_, _)
RoleLoop(s, c) ==
    LET call == s.calls[c]
        assignedTo == s.tasks[call.task].assignedTo
    IN  IF call.i > Len(assignedTo) THEN Finalize(s, c)
        ELSE LET role == assignedTo[call.i]
                 agent == getAgent(role)
             IN  IF agent = "undefined"
                 THEN RoleLoop(OnNoAgent(s, c), c)
                 ELSE [ s EXCEPT
                        !.calls[c].agent = agent,
                        !.calls[c].pc = "await" ]

\* BeginExecuteTask that leaves a task alone, marked Blocked, while one of
\* its dependencies is not the id of a Completed task
BeginExecuteTaskGated(s, ref, owner) ==
    LET c == Len(s.calls) + 1
        call == [ task |-> ref, owner |-> owner, i |-> 1, agent |-> "undefined",
                  responses |-> <<>>, visited |-> <<>>, pc |-> "start" ]
        deps == s.tasks[ref].dependencies
        met == \A k \in 1..Len(deps) :
                  \E t \in DOMAIN s.tasks :
                     s.tasks[t].id = deps[k] /\ s.tasks[t].status = Completed
    IN  IF met
        THEN RoleLoop([ s EXCEPT !.tasks[ref].status = InProgress,
                                 !.calls = Append(@, call) ], c)
        ELSE [ s EXCEPT !.tasks[ref].status = "blocked",
                        !.calls = Append(@, [ call EXCEPT !.pc = "done" ]) ]

\* executeTask from its call to the first await (or to its return)
BeginExecuteTask(s, ref, owner) ==
    LET c == Len(s.calls) + 1
        call == [ task |-> ref, owner |-> owner, i |-> 1, agent |-> "undefined",
                  responses |-> <<>>, visited |-> <<>>, pc |-> "start" ]
    IN  RoleLoop([ s EXCEPT !.tasks[ref].status = InProgress,
                            !.calls = Append(@, call) ], c)

\* the AgentResponse a worker returns from execute; seq tells apart the
\* objects returned by different invocations
Response(s, c) ==
    [ agentId |-> s.calls[c].agent, agentRole |-> RoleOf(s.calls[c].agent),
      taskId |-> s.tasks[s.calls[c].task].id, confidence |-> 88,
      errors |-> <<>>, seq |-> << c, s.calls[c].i >> ]

\* OnResponse without the store into the shared context
OnResponseNoStore(s, c, response) ==
    LET call == s.calls[c]
        role == s.tasks[call.task].assignedTo[call.i]
    IN  RoleLoop([ s EXCEPT
            !.calls[c].responses = Append(@, response),
            !.calls[c].visited =
                Append(@, [role |-> role, agent |-> call.agent, outcome |-> "ok"]),
            !.calls[c].agent = "undefined",
            !.calls[c].i = @ + 1 ], c)

\* executeTask resumed with the value the awaited agent.execute resolved to
OnResponse(s, c, response) ==
    LET call == s.calls[c]
        role == s.tasks[call.task].assignedTo[call.i]
    IN  RoleLoop([ s EXCEPT
            !.calls[c].responses = Append(@, response),
            !.sharedContext =
                MapSet(@, TaskKey(s.tasks[call.task].id, role),
                       ResponseValue(response)),
            !.runs = IF call.owner = 0 THEN @
                     ELSE [ @ EXCEPT ![call.owner].writes =
                              Append(@, TaskKey(s.tasks[call.task].id, role)) ],
            !.calls[c].visited =
                Append(@, [role |-> role, agent |-> call.agent, outcome |-> "ok"]),
            !.calls[c].agent = "undefined",
            !.calls[c].i = @ + 1 ], c)

\* executeTask resumed with the response of the awaited agent.execute
OnResolved(s, c) == OnResponse(s, c, Response(s, c))

\* the outcomes of the analyze step awaited inside a built-in agent's execute
Analyses == {"returns", "throws"}

\* execute of a built-in agent without the try/catch around analyze
executeNoCatch(s, c, analysis) ==
    IF analysis = "returns"
    THEN [ settled |-> "resolved", response |-> Response(s, c) ]
    ELSE [ settled |-> "rejected", response |-> Response(s, c) ]

\* execute of the built-in agents (ProductManagerAgent, QAAgent,
\* ArchitectAgent, ...): what the promise settles to, given what analyze did
execute(s, c, analysis) ==
    IF analysis = "returns"
    THEN [ settled |-> "resolved", response |-> Response(s, c) ]
    ELSE [ settled |-> "resolved",
           response |-> [ Response(s, c) EXCEPT
                            !.confidence = 0,
                            !.errors = << "Error: analyze failed" >> ] ]

\* OnRejected without the try/catch: the rejection leaves executeTask
OnRejectedRethrow(s, c) ==
    [ s EXCEPT !.calls[c].agent = "undefined", !.calls[c].pc = "rejected" ]

\* OnRejected that marks the task as failed in the catch block
OnRejectedMarkFailed(s, c) ==
    LET call == s.calls[c]
        role == s.tasks[call.task].assignedTo[call.i]
    IN  RoleLoop([ s EXCEPT
            !.tasks[call.task].status = "failed",
            !.calls[c].visited =
                Append(@, [role |-> role, agent |-> call.agent,
                           outcome |-> "throw"]),
            !.calls[c].agent = "undefined",
            !.calls[c].i = @ + 1 ], c)

\* OnRejected whose catch block stores the error under the key of the role
OnRejectedStoreError(s, c) ==
    LET call == s.calls[c]
        role == s.tasks[call.task].assignedTo[call.i]
    IN  RoleLoop([ s EXCEPT
            !.sharedContext =
                MapSet(@, TaskKey(s.tasks[call.task].id, role),
                       ClientValue("error")),
            !.calls[c].visited =
                Append(@, [role |-> role, agent |-> call.agent,
                           outcome |-> "throw"]),
            !.calls[c].agent = "undefined",
            !.calls[c].i = @ + 1 ], c)

\* OnRejected that leaves the call suspended for good
OnRejectedHang(s, c) ==
    [ s EXCEPT !.calls[c].agent = "undefined", !.calls[c].pc = "hung" ]

\* executeTask resumed with the awaited agent.execute rejected: the catch
\* block logs and the loop goes on
OnRejected(s, c) ==
    LET call == s.calls[c]
        role == s.tasks[call.task].assignedTo[call.i]
    IN  RoleLoop([ s EXCEPT
            !.calls[c].visited =
                Append(@, [role |-> role, agent |-> call.agent,
                           outcome |-> "throw"]),
            !.calls[c].agent = "undefined",
            !.calls[c].i = @ + 1 ], c)

\* -------------------------------------------------- WorkflowOrchestrator
\* EndStage without the store into the shared context
EndStageNoStore(s, r) ==
    LET run == s.runs[r]
        allSuccessful == Len(run.stage.successCriteria) > 0
    IN  [ s EXCEPT
            !.runs[r].workflowResults =
                EntrySet(@, run.stage.id, run.stageResponses),
            !.runs[r].signals = Append(@, allSuccessful),
            !.runs[r].inStage = FALSE,
            !.runs[r].i = @ + 1 ]

\* EndStage that leaves the stage loop when the criteria check is false
EndStageBreakOnFalse(s, r) ==
    LET run == s.runs[r]
        allSuccessful == Len(run.stage.successCriteria) > 0
    IN  [ s EXCEPT
            !.runs[r].workflowResults =
                EntrySet(@, run.stage.id, run.stageResponses),
            !.sharedContext =
                MapSet(@, StageKey(run.stage.id), ListValue(run.stageResponses)),
            !.runs[r].signals = Append(@, allSuccessful),
            !.runs[r].inStage = FALSE,
            !.runs[r].i = IF allSuccessful THEN @ + 1
                          ELSE Len(currentWorkflow.stages) + 1 ]

\* EndStage that stores the stage's responses in the shared context only
\* when the stage's key is not yet held
EndStageStoreOnce(s, r) ==
    LET run == s.runs[r]
        allSuccessful == Len(run.stage.successCriteria) > 0
        held == StageKey(run.stage.id) \in DOMAIN s.sharedContext
    IN  [ s EXCEPT
            !.runs[r].workflowResults =
                EntrySet(@, run.stage.id, run.stageResponses),
            !.sharedContext =
                IF held THEN @
                ELSE MapSet(@, StageKey(run.stage.id), ListValue(run.stageResponses)),
            !.runs[r].writes =
                IF held THEN @ ELSE Append(@, StageKey(run.stage.id)),
            !.runs[r].signals = Append(@, allSuccessful),
            !.runs[r].inStage = FALSE,
            !.runs[r].i = @ + 1 ]

\* executeWorkflow, end of one iteration of the stage loop: record the
\* stage's responses, store them in the shared context, evaluate the criteria
EndStage(s, r) ==
    LET run == s.runs[r]
        allSuccessful == Len(run.stage.successCriteria) > 0
    IN  [ s EXCEPT
            !.runs[r].workflowResults =
                EntrySet(@, run.stage.id, run.stageResponses),
            !.sharedContext =
                MapSet(@, StageKey(run.stage.id), ListValue(run.stageResponses)),
            !.runs[r].writes = Append(@, StageKey(run.stage.id)),
            !.runs[r].signals = Append(@, allSuccessful),
            !.runs[r].inStage = FALSE,
            !.runs[r].i = @ + 1 ]

\* DispatchTask that puts the task into pendingTasks before executing it
DispatchTaskQueued(s, r) ==
    LET run == s.runs[r]
        ref == run.stage.tasks[run.t + 1]
        s1 == BeginExecuteTask([ s EXCEPT !.pendingTasks = Append(@, ref) ], ref, r)
    IN  [ s1 EXCEPT !.runs[r].t = @ + 1,
                    !.runs[r].call = Len(s1.calls),
                    !.runs[r].pc = "await",
                    !.runs[r].dispatched = Append(@, ref) ]

\* executeWorkflow, dispatch of the next task of the stage in hand: the call
\* of executeTask runs to its first await, then executeWorkflow awaits it
DispatchTask(s, r) ==
    LET run == s.runs[r]
        ref == run.stage.tasks[run.t + 1]
        s1 == BeginExecuteTask(s, ref, r)
    IN  [ s1 EXCEPT !.runs[r].t = @ + 1,
                    !.runs[r].call = Len(s1.calls),
                    !.runs[r].pc = "await",
                    !.runs[r].dispatched = Append(@, ref) ]

\* WorkflowOf of two orchestrators that keep one current workflow between
\* them
WorkflowOfShared(o) == currentWorkflow

\* this.currentWorkflow of orchestrator o
WorkflowOf(o) == IF o = 1 THEN currentWorkflow ELSE peerWorkflow

\* executeWorkflow's loops from the current position up to the next await of
\* executeTask, or to the return; this.currentWorkflow is read at the head of
\* every stage iteration
RECURSIVE StageLoop(_, _)
StageLoop(s, r) ==
    LET run == s.runs[r]
        this == WorkflowOf(run.orch)
    IN  IF run.inStage
        THEN IF run.t < Len(run.stage.tasks)
             THEN DispatchTask(s, r)
             ELSE StageLoop(EndStage(s, r), r)
        ELSE IF run.i <= Len(this.stages)
             THEN StageLoop([ s EXCEPT
                    !.runs[r].inStage = TRUE,
                    !.runs[r].stage = this.stages[run.i],
                    !.runs[r].stageResponses = <<>>,
                    !.runs[r].t = 0,
                    !.runs[r].iterated =
                        Append(@, this.stages[run.i]) ], r)
             ELSE [ s EXCEPT !.runs[r].pc = "done" ]

\* the activation record of a fresh executeWorkflow call
NewRun ==
    [ i |-> 1, inStage |-> FALSE, stage |-> NoStage, t |-> 0,
      stageResponses |-> <<>>, workflowResults |-> <<>>, call |-> 0,
      pc |-> "start", error |-> "",
      orch |-> 1,                              \* the orchestrator called
      startStages |-> currentWorkflow.stages,  \* history: stages at the call
      startId |-> currentWorkflow.id,          \* history: workflow id at the call
      iterated |-> <<>>,                       \* history: stages taken in hand
      dispatched |-> <<>>,                     \* history: tasks handed to executeTask
      signals |-> <<>>,                        \* history: allSuccessful per stage
      writes |-> <<>>,                         \* history: shared-context keys written
      redefined |-> FALSE ]                    \* history: defineWorkflow ran meanwhile

\* the activation record of a fresh executeWorkflow call on the second
\* orchestrator
NewPeerRun ==
    [ NewRun EXCEPT !.orch = 2,
                    !.startStages = peerWorkflow.stages,
                    !.startId = peerWorkflow.id ]

\* ---------------------------------------------------------------- actions
\* the state after new MCPServer() and new WorkflowOrchestrator(server), with
\* the Task objects of the workflow stages built by the caller
StartWith(refs) ==
    /\ agents = <<>>
    /\ tasks = [ ref \in refs |-> StageTaskObject(ref) ]
    /\ taskQueue = <<>>
    /\ pendingTasks = <<>>
    /\ completedTasks = <<>>
    /\ sharedContext = << >>
    /\ calls = <<>>
    /\ currentWorkflow = NoWorkflow
    /\ peerWorkflow = NoWorkflow
    /\ runs = <<>>
    /\ messageHistory = <<>>
    /\ messageQueue = [ w \in Workers |-> <<>> ]
    /\ agentContext = [ w \in Workers |-> NoContext ]
    /\ artifacts = << >>
    /\ regLog = <<>>
    /\ nRouted = 0
    /\ lastArgs = [ key |-> "", value |-> Undefined ]
    /\ nCreated = 0
    /\ nDefines = 0

Start == StartWith(StageTasks)

Spend(op) == budget' = [ budget EXCEPT ![op] = @ - 1 ]

\* MCPServer.registerAgent, but for the history variable
Register(w) ==
    /\ budget.registerAgent > 0
    /\ agents' = EntrySet(agents, RoleOf(w), w)
    /\ agentContext' = [ agentContext EXCEPT ![w] = setSharedContext(sharedContext) ]
    /\ Spend("registerAgent")
    /\ UNCHANGED << tasks, taskQueue, pendingTasks, completedTasks, sharedContext,
                    calls, currentWorkflow, peerWorkflow, runs, nCreated, nDefines >>
    /\ UNCHANGED mailVars

\* MCPServer.registerAgent
RegisterAgent(w) == Register(w) /\ UNCHANGED regLog

\* MCPServer.registerAgent with the call written to the history: the worker
\* and the number of keys the shared context holds at the call
RegisterAgentLogged(w) ==
    /\ Register(w)
    /\ regLog' = Append(regLog, [ agent |-> w,
                                  keys |-> Cardinality(DOMAIN sharedContext) ])

\* MCPServer.createTask
CreateTask(assignedTo) ==
    /\ budget.createTask > 0
    /\ LET id == Uuid(nCreated + 1)
           task == [ id |-> id, assignedTo |-> assignedTo, status |-> Pending,
                     completedAt |-> FALSE, dependencies |-> <<>> ]
       IN  /\ tasks' = MapSet(tasks, id, task)
           /\ taskQueue' = Append(taskQueue, id)
           /\ pendingTasks' = Append(pendingTasks, id)
    /\ nCreated' = nCreated + 1
    /\ Spend("createTask")
    /\ UNCHANGED << agents, completedTasks, sharedContext, calls,
                    currentWorkflow, peerWorkflow, runs, nDefines >>
    /\ UNCHANGED << mailVars, regVars >>

\* MCPServer.executeTask called by a client: up to the first await
ExecuteTask(ref) ==
    /\ budget.executeTask > 0
    /\ ref \in DOMAIN tasks
    /\ Commit(BeginExecuteTask(State, ref, 0))
    /\ Spend("executeTask")
    /\ UNCHANGED << agents, taskQueue, currentWorkflow, peerWorkflow, nCreated, nDefines >>
    /\ UNCHANGED << mailVars, regVars >>

\* the awaited agent.execute of call c resolves and executeTask goes on
AgentResolves(c) ==
    /\ calls[c].pc = "await"
    /\ Commit(OnResolved(State, c))
    /\ UNCHANGED << agents, taskQueue, currentWorkflow, peerWorkflow, nCreated, nDefines, budget >>
    /\ UNCHANGED << mailVars, regVars >>

\* the awaited agent.execute of call c rejects and executeTask goes on
AgentRejects(c) ==
    /\ calls[c].pc = "await"
    /\ Commit(OnRejected(State, c))
    /\ UNCHANGED << agents, taskQueue, currentWorkflow, peerWorkflow, nCreated, nDefines, budget >>
    /\ UNCHANGED << mailVars, regVars >>

\* the execute of the built-in agent awaited by call c settles after its
\* analyze step has returned or thrown, and executeTask goes on
BuiltinSettles(c, analysis) ==
    /\ calls[c].pc = "await"
    /\ LET result == execute(State, c, analysis)
       IN  IF result.settled = "resolved"
           THEN Commit(OnResponse(State, c, result.response))
           ELSE Commit(OnRejected(State, c))
    /\ UNCHANGED << agents, taskQueue, currentWorkflow, peerWorkflow, nCreated, nDefines, budget >>
    /\ UNCHANGED << mailVars, regVars >>

\* MCPServer.updateSharedContext called by a client
UpdateSharedContext(key, value) ==
    /\ budget.updateSharedContext > 0
    /\ sharedContext' = MapSet(sharedContext, key, ClientValue(value))
    /\ lastArgs' = [ key |-> key, value |-> ClientValue(value) ]
    /\ Spend("updateSharedContext")
    /\ UNCHANGED << agents, tasks, taskQueue, pendingTasks, completedTasks, calls,
                    currentWorkflow, peerWorkflow, runs, nCreated, nDefines >>
    /\ UNCHANGED << messageHistory, messageQueue, artifacts, nRouted, regVars >>

\* MCPServer.storeArtifact called by a client
StoreArtifact(name, content) ==
    /\ budget.storeArtifact > 0
    /\ artifacts' = MapSet(artifacts, name, ClientValue(content))
    /\ lastArgs' = [ key |-> name, value |-> ClientValue(content) ]
    /\ Spend("storeArtifact")
    /\ UNCHANGED << agents, tasks, taskQueue, pendingTasks, completedTasks,
                    sharedContext, calls, currentWorkflow, peerWorkflow, runs, nCreated,
                    nDefines >>
    /\ UNCHANGED << messageHistory, messageQueue, nRouted, regVars >>

\* RouteMessage that also keeps the message in the shared context
RouteMessageKept(to) ==
    /\ budget.routeMessage > 0
    /\ LET message == Message(nRouted + 1, to)
       IN  /\ messageHistory' = HistoryPush(messageHistory, message)
           /\ messageQueue' = Deliver(messageQueue, message, 1)
    /\ sharedContext' = MapSet(sharedContext, "last_message", ClientValue("m"))
    /\ nRouted' = nRouted + 1
    /\ Spend("routeMessage")
    /\ UNCHANGED << agents, tasks, taskQueue, pendingTasks, completedTasks,
                    calls, currentWorkflow, peerWorkflow, runs, nCreated,
                    nDefines, artifacts, lastArgs, regVars >>

\* MCPServer.routeMessage with a fresh Message addressed to the roles in to
RouteMessage(to) ==
    /\ budget.routeMessage > 0
    /\ LET message == Message(nRouted + 1, to)
       IN  /\ messageHistory' = HistoryPush(messageHistory, message)
           /\ messageQueue' = Deliver(messageQueue, message, 1)
    /\ nRouted' = nRouted + 1
    /\ Spend("routeMessage")
    /\ UNCHANGED << agents, tasks, taskQueue, pendingTasks, completedTasks,
                    sharedContext, calls, currentWorkflow, peerWorkflow, runs, nCreated,
                    nDefines, artifacts, lastArgs, regVars >>

\* BaseAgent.clearMessages called by worker w
ClearMessages(w) ==
    /\ budget.clearMessages > 0
    /\ messageQueue' = [ messageQueue EXCEPT ![w] = clearMessages(@) ]
    /\ Spend("clearMessages")
    /\ UNCHANGED << agents, tasks, taskQueue, pendingTasks, completedTasks,
                    sharedContext, calls, currentWorkflow, peerWorkflow, runs, nCreated,
                    nDefines, messageHistory, artifacts, nRouted, lastArgs,
                    regVars >>

\* WorkflowOrchestrator.getCurrentWorkflow; NoWorkflow stands for undefined
getCurrentWorkflow == currentWorkflow

\* DefineWorkflow that keeps a workflow that is already defined
DefineWorkflowOnce(stages) ==
    /\ budget.defineWorkflow > 0
    /\ UNCHANGED peerWorkflow
    /\ currentWorkflow' = IF currentWorkflow = NoWorkflow
                          THEN [ id |-> nDefines + 1, stages |-> stages ]
                          ELSE currentWorkflow
    /\ runs' = runs
    /\ nDefines' = nDefines + 1
    /\ Spend("defineWorkflow")
    /\ UNCHANGED << agents, tasks, taskQueue, pendingTasks, completedTasks,
                    sharedContext, calls, nCreated >>
    /\ UNCHANGED << mailVars, regVars >>

\* WorkflowOrchestrator.defineWorkflow; the workflow id stands for the fresh
\* crypto.randomUUID()
DefineWorkflow(stages) ==
    /\ budget.defineWorkflow > 0
    /\ currentWorkflow' = [ id |-> nDefines + 1, stages |-> stages ]
    /\ UNCHANGED peerWorkflow
    /\ runs' = [ r \in 1..Len(runs) |->
                   IF runs[r].pc = "await" /\ runs[r].orch = 1
                   THEN [ runs[r] EXCEPT !.redefined = TRUE ]
                   ELSE runs[r] ]
    /\ nDefines' = nDefines + 1
    /\ Spend("defineWorkflow")
    /\ UNCHANGED << agents, tasks, taskQueue, pendingTasks, completedTasks,
                    sharedContext, calls, nCreated >>
    /\ UNCHANGED << mailVars, regVars >>

\* ExecuteWorkflow without the check of this.currentWorkflow: an undefined
\* workflow is run as one without stages
ExecuteWorkflowUnchecked ==
    /\ budget.executeWorkflow > 0
    /\ Commit(StageLoop([ State EXCEPT !.runs = Append(@, NewRun) ],
                        Len(runs) + 1))
    /\ Spend("executeWorkflow")
    /\ UNCHANGED << agents, taskQueue, currentWorkflow, peerWorkflow, nCreated, nDefines >>
    /\ UNCHANGED << mailVars, regVars >>

\* WorkflowOrchestrator.executeWorkflow: up to the first await, or the throw
\* when no workflow is defined
ExecuteWorkflow ==
    /\ budget.executeWorkflow > 0
    /\ LET r == Len(runs) + 1
       IN  IF currentWorkflow = NoWorkflow
           THEN /\ runs' = Append(runs, [ NewRun EXCEPT
                                            !.pc = "rejected",
                                            !.error = "No workflow defined" ])
                /\ UNCHANGED << tasks, pendingTasks, completedTasks,
                                sharedContext, calls >>
           ELSE Commit(StageLoop([ State EXCEPT !.runs = Append(@, NewRun) ], r))
    /\ Spend("executeWorkflow")
    /\ UNCHANGED << agents, taskQueue, currentWorkflow, peerWorkflow, nCreated, nDefines >>
    /\ UNCHANGED << mailVars, regVars >>

\* defineWorkflow called on the second orchestrator
DefinePeerWorkflow(stages) ==
    /\ budget.defineWorkflow > 0
    /\ peerWorkflow' = [ id |-> nDefines + 1, stages |-> stages ]
    /\ runs' = [ r \in 1..Len(runs) |->
                   IF runs[r].pc = "await" /\ runs[r].orch = 2
                   THEN [ runs[r] EXCEPT !.redefined = TRUE ]
                   ELSE runs[r] ]
    /\ nDefines' = nDefines + 1
    /\ Spend("defineWorkflow")
    /\ UNCHANGED << agents, tasks, taskQueue, pendingTasks, completedTasks,
                    sharedContext, calls, currentWorkflow, nCreated >>
    /\ UNCHANGED << mailVars, regVars >>

\* executeWorkflow called on the second orchestrator
ExecutePeerWorkflow ==
    /\ budget.executeWorkflow > 0
    /\ LET r == Len(runs) + 1
       IN  IF peerWorkflow = NoWorkflow
           THEN /\ runs' = Append(runs, [ NewPeerRun EXCEPT
                                            !.pc = "rejected",
                                            !.error = "No workflow defined" ])
                /\ UNCHANGED << tasks, pendingTasks, completedTasks,
                                sharedContext, calls >>
           ELSE Commit(StageLoop([ State EXCEPT !.runs = Append(@, NewPeerRun) ], r))
    /\ Spend("executeWorkflow")
    /\ UNCHANGED << agents, taskQueue, currentWorkflow, peerWorkflow, nCreated, nDefines >>
    /\ UNCHANGED << mailVars, regVars >>

\* executeWorkflow called by a client that awaits the promise of each call
\* before it calls again
ExecuteWorkflowInTurn ==
    /\ \A r \in 1..Len(runs) : runs[r].pc \in {"done", "rejected"}
    /\ ExecuteWorkflow

\* RunResumes without the await: executeWorkflow goes on with the responses
\* gathered so far while the executeTask call is still under way
RunResumesEarly(r) ==
    /\ runs[r].pc = "await"
    /\ calls[runs[r].call].pc # "rejected"
    /\ Commit(StageLoop([ State EXCEPT
                !.runs[r].stageResponses =
                    @ \o calls[runs[r].call].responses ], r))
    /\ UNCHANGED << agents, taskQueue, currentWorkflow, peerWorkflow, nCreated, nDefines, budget >>
    /\ UNCHANGED << mailVars, regVars >>

\* RunResumes that takes the responses of the call for the stage's list in
\* the place of appending them to it
RunResumesOverwrite(r) ==
    /\ runs[r].pc = "await"
    /\ calls[runs[r].call].pc \in {"done", "rejected"}
    /\ IF calls[runs[r].call].pc = "rejected"
       THEN /\ runs' = [ runs EXCEPT ![r].pc = "rejected",
                                     ![r].error = "execute failed" ]
            /\ UNCHANGED << tasks, pendingTasks, completedTasks,
                            sharedContext, calls >>
       ELSE Commit(StageLoop([ State EXCEPT
                !.runs[r].stageResponses = calls[runs[r].call].responses ], r))
    /\ UNCHANGED << agents, taskQueue, currentWorkflow, peerWorkflow, nCreated, nDefines, budget >>
    /\ UNCHANGED << mailVars, regVars >>

\* executeWorkflow resumed when the awaited executeTask has settled
RunResumes(r) ==
    /\ runs[r].pc = "await"
    /\ calls[runs[r].call].pc \in {"done", "rejected"}
    /\ IF calls[runs[r].call].pc = "rejected"
       THEN /\ runs' = [ runs EXCEPT ![r].pc = "rejected",
                                     ![r].error = "execute failed" ]
            /\ UNCHANGED << tasks, pendingTasks, completedTasks,
                            sharedContext, calls >>
       ELSE Commit(StageLoop([ State EXCEPT
                !.runs[r].stageResponses =
                    @ \o calls[runs[r].call].responses ], r))
    /\ UNCHANGED << agents, taskQueue, currentWorkflow, peerWorkflow, nCreated, nDefines, budget >>
    /\ UNCHANGED << mailVars, regVars >>

\* ------------------------------------------------------- specifications
\* the coordinator driven by clients: registration, task creation and
\* concurrently running executeTask calls
InitDispatch ==
    /\ Start
    /\ budget = [ registerAgent |-> MaxRegs, createTask |-> MaxCreated,
                  executeTask |-> MaxClientCalls,
                  updateSharedContext |-> MaxUpdates,
                  defineWorkflow |-> 0, executeWorkflow |-> 0,
                  routeMessage |-> 0, clearMessages |-> 0,
                  storeArtifact |-> 0 ]

NextDispatch ==
    \/ \E w \in DefaultWorkers : RegisterAgent(w)
    \/ \E assignedTo \in AssignChoices : CreateTask(assignedTo)
    \/ \E ref \in DOMAIN tasks \ StageTasks : ExecuteTask(ref)
    \/ \E c \in 1..Len(calls) : AgentResolves(c)
    \/ \E c \in 1..Len(calls) : AgentRejects(c)
    \/ \E key \in ClientKeys : UpdateSharedContext(key, "v")

SpecDispatch == InitDispatch /\ [][NextDispatch]_vars

\* the sequencer on top of the coordinator, with clients creating and
\* executing tasks of their own meanwhile
Init ==
    /\ Start
    /\ budget = [ registerAgent |-> MaxRegs, createTask |-> MaxWfCreated,
                  executeTask |-> MaxWfClientCalls,
                  updateSharedContext |-> 0,
                  defineWorkflow |-> MaxDefines, executeWorkflow |-> MaxRuns,
                  routeMessage |-> 0, clearMessages |-> 0,
                  storeArtifact |-> 0 ]

Next ==
    \/ \E w \in Workers : RegisterAgent(w)
    \/ CreateTask(<<"QA", "ProductManager">>)
    \/ \E ref \in DOMAIN tasks : ExecuteTask(ref)
    \/ \E c \in 1..Len(calls) : AgentResolves(c)
    \/ \E c \in 1..Len(calls) : AgentRejects(c)
    \/ \E stages \in WorkflowDefs : DefineWorkflow(stages)
    \/ ExecuteWorkflow
    \/ \E r \in 1..Len(runs) : RunResumes(r)

Spec == Init /\ [][Next]_vars

\* the registry and the shared context driven by clients, with the
\* registerAgent calls written to the history
InitRegistry ==
    /\ Start
    /\ budget = [ registerAgent |-> MaxRegistryRegs, createTask |-> 0,
                  executeTask |-> 0, updateSharedContext |-> MaxRegistryUpdates,
                  defineWorkflow |-> 0, executeWorkflow |-> 0,
                  routeMessage |-> 0, clearMessages |-> 0,
                  storeArtifact |-> 0 ]

NextRegistry ==
    \/ \E w \in Workers : RegisterAgentLogged(w)
    \/ \E key \in ClientKeys : UpdateSharedContext(key, "v")

SpecRegistry == InitRegistry /\ [][NextRegistry]_vars

\* the message router driven by clients, with workers being registered and
\* clearing their queues meanwhile
InitRouter ==
    /\ Start
    /\ budget = [ registerAgent |-> MaxRouterRegs, createTask |-> 0,
                  executeTask |-> 0, updateSharedContext |-> 0,
                  defineWorkflow |-> 0, executeWorkflow |-> 0,
                  routeMessage |-> MaxRouted, clearMessages |-> MaxClears,
                  storeArtifact |-> 0 ]

NextRouter ==
    \/ \E w \in Workers : RegisterAgent(w)
    \/ \E to \in ToChoices : RouteMessage(to)
    \/ \E w \in { v \in Workers : getMessages(v) # <<>> } : ClearMessages(w)

SpecRouter == InitRouter /\ [][NextRouter]_vars

\* the artifact store driven by clients, with the coordinator's other
\* operations going on meanwhile
InitArtifacts ==
    /\ Start
    /\ budget = [ registerAgent |-> MaxAside, createTask |-> MaxAside,
                  executeTask |-> MaxAside, updateSharedContext |-> MaxAside,
                  defineWorkflow |-> 0, executeWorkflow |-> 0,
                  routeMessage |-> MaxAside, clearMessages |-> 0,
                  storeArtifact |-> MaxStores ]

NextArtifacts ==
    \/ \E name \in ArtifactNames, content \in ArtifactContents :
          StoreArtifact(name, content)
    \/ RegisterAgent("qa-agent-001")
    \/ CreateTask(<< "QA" >>)
    \/ \E ref \in DOMAIN tasks \ StageTasks : ExecuteTask(ref)
    \/ \E c \in 1..Len(calls) : AgentResolves(c)
    \/ RouteMessage(<< "QA" >>)
    \/ UpdateSharedContext("design", "v1")

SpecArtifacts == InitArtifacts /\ [][NextArtifacts]_vars

\* the three writers of the shared context side by side: clients calling
\* updateSharedContext and executeTask, and a workflow run
InitWrites ==
    /\ Start
    /\ budget = [ registerAgent |-> MaxAside, createTask |-> 0,
                  executeTask |-> MaxAside, updateSharedContext |-> MaxWrites,
                  defineWorkflow |-> MaxAside, executeWorkflow |-> MaxAside,
                  routeMessage |-> 0, clearMessages |-> 0,
                  storeArtifact |-> 0 ]

NextWrites ==
    \/ RegisterAgent("qa-agent-001")
    \/ \E key \in WriteKeys, value \in WriteValues : UpdateSharedContext(key, value)
    \/ \E ref \in StageTasks : ExecuteTask(ref)
    \/ \E c \in 1..Len(calls) : AgentResolves(c)
    \/ \E c \in 1..Len(calls) : AgentRejects(c)
    \/ \E stages \in WorkflowDefs : DefineWorkflow(stages)
    \/ ExecuteWorkflow
    \/ \E r \in 1..Len(runs) : RunResumes(r)

SpecWrites == InitWrites /\ [][NextWrites]_vars

\* clients creating tasks and executing them with no worker registered
InitQueue ==
    /\ Start
    /\ budget = [ registerAgent |-> 0, createTask |-> MaxBatch,
                  executeTask |-> MaxBatchCalls, updateSharedContext |-> 0,
                  defineWorkflow |-> 0, executeWorkflow |-> 0,
                  routeMessage |-> 0, clearMessages |-> 0,
                  storeArtifact |-> 0 ]

NextQueue ==
    \/ \E assignedTo \in AssignChoices : CreateTask(assignedTo)
    \/ \E ref \in DOMAIN tasks \ StageTasks : ExecuteTask(ref)

SpecQueue == InitQueue /\ [][NextQueue]_vars

\* executeWorkflow called more than once on one workflow, one call after
\* another, the workers resolving or rejecting each invocation
InitTwin ==
    /\ Start
    /\ budget = [ registerAgent |-> MaxAside, createTask |-> 0,
                  executeTask |-> 0, updateSharedContext |-> 0,
                  defineWorkflow |-> MaxAside, executeWorkflow |-> MaxTwinRuns,
                  routeMessage |-> 0, clearMessages |-> 0,
                  storeArtifact |-> 0 ]

NextTwin ==
    \/ \E w \in DefaultWorkers : RegisterAgent(w)
    \/ \E stages \in WorkflowDefs : DefineWorkflow(stages)
    \/ ExecuteWorkflowInTurn
    \/ \E r \in 1..Len(runs) : RunResumes(r)
    \/ \E c \in 1..Len(calls) : AgentResolves(c)
    \/ \E c \in 1..Len(calls) : AgentRejects(c)

SpecTwin == InitTwin /\ [][NextTwin]_vars

\* messages routed while clients register workers and execute a task
InitMail ==
    /\ Start
    /\ budget = [ registerAgent |-> MaxRegs, createTask |-> MaxAside,
                  executeTask |-> MaxAside, updateSharedContext |-> 0,
                  defineWorkflow |-> 0, executeWorkflow |-> 0,
                  routeMessage |-> MaxRouted, clearMessages |-> 0,
                  storeArtifact |-> 0 ]

NextMail ==
    \/ \E w \in DefaultWorkers : RegisterAgent(w)
    \/ CreateTask(<< "ProductManager", "QA" >>)
    \/ \E ref \in DOMAIN tasks \ StageTasks : ExecuteTask(ref)
    \/ \E c \in 1..Len(calls) : AgentResolves(c)
    \/ \E to \in ToChoices : RouteMessage(to)

SpecMail == InitMail /\ [][NextMail]_vars

\* executeTask with the built-in agents as workers
InitBuiltin ==
    /\ Start
    /\ budget = [ registerAgent |-> MaxRegs, createTask |-> MaxAside,
                  executeTask |-> MaxClientCalls, updateSharedContext |-> 0,
                  defineWorkflow |-> 0, executeWorkflow |-> 0,
                  routeMessage |-> 0, clearMessages |-> 0,
                  storeArtifact |-> 0 ]

NextBuiltin ==
    \/ \E w \in DefaultWorkers : RegisterAgent(w)
    \/ \E assignedTo \in AssignChoices : CreateTask(assignedTo)
    \/ \E ref \in DOMAIN tasks \ StageTasks : ExecuteTask(ref)
    \/ \E c \in 1..Len(calls), analysis \in Analyses : BuiltinSettles(c, analysis)

SpecBuiltin == InitBuiltin /\ [][NextBuiltin]_vars

\* SpecTwin with every worker invocation settling in the end and every
\* continuation of an awaited promise that has settled being run
SpecTwinFair ==
    /\ SpecTwin
    /\ WF_vars(\E c \in 1..Len(calls) : AgentResolves(c) \/ AgentRejects(c))
    /\ WF_vars(\E r \in 1..Len(runs) : RunResumes(r))

\* two orchestrators on one coordinator, each given a workflow of its own
\* once and run once, their runs overlapping in any way
Orchestrators == {1, 2}

InitPeers ==
    /\ StartWith(StageTasks \cup PeerTasks)
    /\ budget = [ registerAgent |-> MaxRegs, createTask |-> 0,
                  executeTask |-> 0, updateSharedContext |-> 0,
                  defineWorkflow |-> Cardinality(Orchestrators),
                  executeWorkflow |-> Cardinality(Orchestrators),
                  routeMessage |-> 0, clearMessages |-> 0,
                  storeArtifact |-> 0 ]

NextPeers ==
    \/ \E w \in DefaultWorkers : RegisterAgent(w)
    \/ currentWorkflow = NoWorkflow /\ DefineWorkflow(OwnStages)
    \/ peerWorkflow = NoWorkflow /\ DefinePeerWorkflow(PeerStages)
    \/ /\ currentWorkflow # NoWorkflow
       /\ \A r \in 1..Len(runs) : runs[r].orch # 1
       /\ ExecuteWorkflow
    \/ /\ peerWorkflow # NoWorkflow
       /\ \A r \in 1..Len(runs) : runs[r].orch # 2
       /\ ExecutePeerWorkflow
    \/ \E r \in 1..Len(runs) : RunResumes(r)
    \/ \E c \in 1..Len(calls) : AgentResolves(c)
    \/ \E c \in 1..Len(calls) : AgentRejects(c)

SpecPeers == InitPeers /\ [][NextPeers]_vars

\* ------------------------------------------------------------ properties
CallIds == 1..Len(calls)
RunIds == 1..Len(runs)
CreatedTasks == DOMAIN tasks \ StageTasks

IdsOf(refs) == { tasks[refs[k]].id : k \in 1..Len(refs) }

\* the entries of a call's visited list whose role had an agent
IsInvoked(v) == v.outcome # "skipped"
Invoked(c) == SelectSeq(calls[c].visited, IsInvoked)

RolesOf(entries) == [ k \in 1..Len(entries) |-> entries[k].role ]
AgentRolesOf(resps) == [ k \in 1..Len(resps) |-> resps[k].agentRole ]

RECURSIVE TasksOf(_)
TasksOf(stages) ==
    IF stages = <<>> THEN <<>> ELSE Head(stages).tasks \o TasksOf(Tail(stages))

StageIds(stages) == [ k \in 1..Len(stages) |-> stages[k].id ]

\* call c returns in this step
Returns(c) ==
    /\ calls'[c].pc = "done"
    /\ (c > Len(calls) \/ calls[c].pc # "done")

\* C1: a rejected agent.execute never makes executeTask (or executeWorkflow)
\* reject; the call still visits every assigned role, invoking every role that
\* has an agent, and the run still dispatches every task of every stage it
\* takes in hand and takes every stage in hand
FailureIsolation ==
    /\ \A c \in CallIds : calls[c].pc # "rejected"
    /\ \A r \in RunIds :
          runs[r].pc = "rejected" => runs[r].error = "No workflow defined"
    /\ \A c \in CallIds :
          calls[c].pc = "done" =>
             /\ RolesOf(calls[c].visited) = tasks[calls[c].task].assignedTo
             /\ \A k \in 1..Len(calls[c].visited) :
                   calls[c].visited[k].agent # "undefined" =>
                      calls[c].visited[k].outcome \in {"ok", "throw"}
    /\ \A r \in RunIds :
          runs[r].pc = "done" =>
             /\ runs[r].dispatched = TasksOf(runs[r].iterated)
             /\ Len(runs[r].iterated) = runs[r].i - 1
             /\ (~runs[r].redefined => runs[r].iterated = runs[r].startStages)

\* C1 witness: a finished run in which an agent rejected, the next role of
\* the same task was invoked all the same, and a later stage was dispatched
FailureIsolationWitness ==
    \E r \in RunIds :
       /\ runs[r].pc = "done"
       /\ Len(runs[r].dispatched) >= 2
       /\ \E c \in CallIds :
             /\ calls[c].owner = r
             /\ calls[c].task = runs[r].dispatched[1]
             /\ Len(calls[c].visited) = 2
             /\ calls[c].visited[1].outcome = "throw"
             /\ calls[c].visited[2].outcome = "ok"
       /\ \E c \in CallIds :
             /\ calls[c].owner = r
             /\ calls[c].task = runs[r].dispatched[2]
             /\ calls[c].pc = "done"

\* C2: a returned call holds one response per assigned role that had an
\* agent, and the response of a role whose agent rejected has confidence 0
\* and a non-empty error list
OneResponsePerRegisteredRole ==
    \A c \in CallIds :
       calls[c].pc = "done" =>
          /\ Len(calls[c].responses) = Len(Invoked(c))
          /\ \A k \in 1..Len(Invoked(c)) :
                /\ k <= Len(calls[c].responses)
                /\ calls[c].responses[k].agentRole = Invoked(c)[k].role
                /\ Invoked(c)[k].outcome = "throw" =>
                      /\ calls[c].responses[k].confidence = 0
                      /\ calls[c].responses[k].errors # <<>>

ResponseOrdering ==
    \A c \in CallIds :
       calls[c].pc = "done" =>
          AgentRolesOf(calls[c].responses) = RolesOf(Invoked(c))

\* C5: no task id is in pendingTasks and completedTasks at once, and an id
\* that is in completedTasks is never in pendingTasks afterwards
MonotonicLifecycle ==
    /\ [](IdsOf(pendingTasks) \cap IdsOf(completedTasks) = {})
    /\ [][ IdsOf(completedTasks) \cap (IdsOf(pendingTasks))' = {} ]_vars

\* C5 witness: a created task and a stage task are completed, and the
\* created one has left pendingTasks
MonotonicLifecycleWitness ==
    /\ \E t \in CreatedTasks :
          t \in SeqToSet(completedTasks) /\ t \notin SeqToSet(pendingTasks)
    /\ \E q \in StageTasks : q \in SeqToSet(completedTasks)

\* the number of executeTask calls on task t that have returned
Returned(t) == Cardinality({ c \in CallIds : calls[c].task = t /\ calls[c].pc = "done" })

\* C6, as claimed: every created task occurs exactly once in pendingTasks
\* and completedTasks taken together
ExactlyOnceOverall ==
    \A t \in CreatedTasks : Count(pendingTasks, t) + Count(completedTasks, t) = 1

\* C6, amended: a created task occurs once in pendingTasks and not in
\* completedTasks until a call on it returns; from then on it is absent from
\* pendingTasks and occurs in completedTasks once per returned call
OncePerReturnedCall ==
    \A t \in CreatedTasks :
       /\ Returned(t) = 0 =>
             Count(pendingTasks, t) = 1 /\ Count(completedTasks, t) = 0
       /\ Returned(t) > 0 =>
             Count(pendingTasks, t) = 0 /\ Count(completedTasks, t) = Returned(t)

\* C6 witness: a created task executed twice, two entries in completedTasks
OncePerReturnedCallWitness ==
    \E t \in CreatedTasks : Returned(t) = 2 /\ Count(completedTasks, t) = 2

\* C7: under every interleaving a created task is in pendingTasks or in
\* completedTasks, never in neither and never in both
InExactlyOneCollection ==
    \A t \in CreatedTasks :
       (t \in SeqToSet(pendingTasks)) # (t \in SeqToSet(completedTasks))

\* C7 witness: two calls on one created task overlap; one has returned and
\* moved the task while the other still awaits its agent
InExactlyOneCollectionWitness ==
    \E c, d \in CallIds :
       /\ calls[c].task = calls[d].task
       /\ calls[c].task \in CreatedTasks
       /\ calls[c].pc = "done" /\ calls[d].pc = "await"
       /\ c > d
       /\ calls[c].task \in SeqToSet(completedTasks)

\* C8, as claimed: after a call returned, the key task:<id>:<role> holds the
\* response appended for that role
RoundTripColonKey ==
    \A c \in CallIds :
       calls[c].pc = "done" =>
          \A k \in 1..Len(calls[c].responses) :
             getSharedContextValue(
                 "task:" \o tasks[calls[c].task].id \o ":"
                         \o calls[c].responses[k].agentRole)
               = ResponseValue(calls[c].responses[k])

\* C8, amended: when a call appends an agent's response, that response is
\* what getSharedContextValue yields for task_<id>_<role>; a step of the call
\* never changes what is held under task:<id>:<role>
RoundTripUnderscoreKey ==
    /\ [][ \A c \in CallIds :
             Len(calls'[c].responses) > Len(calls[c].responses) =>
                MapGet(sharedContext',
                       "task_" \o tasks[calls[c].task].id \o "_"
                               \o Last(calls'[c].responses).agentRole)
                  = ResponseValue(Last(calls'[c].responses)) ]_vars
    /\ [][ \A c \in CallIds : \A role \in Roles :
             LET key == "task:" \o tasks[calls[c].task].id \o ":" \o role
             IN  calls'[c] # calls[c] =>
                    MapGet(sharedContext', key) = MapGet(sharedContext, key) ]_vars

\* C8 witness: a returned call whose response is held under task_<id>_<role>
RoundTripWitness ==
    \E c \in CallIds :
       /\ calls[c].pc = "done"
       /\ Len(calls[c].responses) = 2
       /\ \A k \in 1..2 :
             getSharedContextValue(
                 "task_" \o tasks[calls[c].task].id \o "_"
                         \o calls[c].responses[k].agentRole)
               = ResponseValue(calls[c].responses[k])

\* C9: the map a run returns has one entry per stage of the workflow the run
\* was started on, in declaration order
ResultCoversStages ==
    \A r \in RunIds :
       runs[r].pc = "done" =>
          EntryKeys(runs[r].workflowResults) = StageIds(runs[r].startStages)

\* the value the run's result map holds for a stage id
ResultFor(run, id) ==
    (CHOOSE e \in SeqToSet(run.workflowResults) : e.key = id).value

\* the stages of a run that have ended
Ended(run) == 1..(IF run.inStage THEN Len(run.iterated) - 1 ELSE Len(run.iterated))

\* C10, as claimed: while a task of a later stage is dispatched, the results
\* of every earlier stage are held under stage:<id>:results
StageResultsFirstColonKey ==
    \A r \in RunIds :
       runs[r].pc = "await" =>
          \A j \in Ended(runs[r]) :
             ("stage:" \o runs[r].iterated[j].id \o ":results")
                \in DOMAIN sharedContext

\* C10, amended: the step that ends a stage leaves the stage's result list
\* under stage_<id>_results, and that step is over before (or is the very
\* step in which) the first task of the next stage is dispatched: while a
\* task of a later stage is dispatched the key of every earlier stage is set
StageResultsFirst ==
    /\ [](\A r \in RunIds :
            runs[r].pc = "await" =>
               \A j \in Ended(runs[r]) :
                  ("stage_" \o runs[r].iterated[j].id \o "_results")
                     \in DOMAIN sharedContext)
    /\ [][ \A r \in 1..Len(runs') :
             \A j \in Ended(runs'[r]) :
                (r > Len(runs) \/ j \notin Ended(runs[r])) =>
                   MapGet(sharedContext',
                          "stage_" \o runs'[r].iterated[j].id \o "_results")
                     = ListValue(ResultFor(runs'[r], runs'[r].iterated[j].id)) ]_vars

\* C10 witness: the second stage's task is dispatched and awaited, the first
\* stage's non-empty result list is in the shared context
StageResultsFirstWitness ==
    \E r \in RunIds :
       /\ runs[r].pc = "await"
       /\ Len(runs[r].iterated) = 2
       /\ runs[r].t = 1
       /\ calls[runs[r].call].pc = "await"
       /\ getSharedContextValue("stage_" \o runs[r].iterated[1].id \o "_results")
            = ListValue(ResultFor(runs[r], runs[r].iterated[1].id))
       /\ Len(ResultFor(runs[r], runs[r].iterated[1].id)) = 2

\* C11: an executeWorkflow call made while no workflow is defined is rejected
\* with "No workflow defined"; it dispatches no task and begins no
\* executeTask call, so no agent is invoked, and it leaves the task objects,
\* taskQueue, pendingTasks, completedTasks, the shared context, the
\* artifacts and the message history as they were
NoWorkflowFails ==
    [][ \A r \in 1..Len(runs') :
          (r > Len(runs) /\ currentWorkflow = NoWorkflow) =>
             /\ runs'[r].pc = "rejected"
             /\ runs'[r].error = "No workflow defined"
             /\ runs'[r].dispatched = <<>>
             /\ runs'[r].iterated = <<>>
             /\ calls' = calls
             /\ UNCHANGED << tasks, taskQueue, pendingTasks, completedTasks,
                             sharedContext, artifacts, messageHistory >> ]_vars

\* C11 witness: a run rejected for want of a workflow while a created task
\* is pending and an executeTask call of a client awaits its agent
NoWorkflowFailsWitness ==
    \E r \in RunIds :
       /\ runs[r].pc = "rejected"
       /\ runs[r].error = "No workflow defined"
       /\ currentWorkflow = NoWorkflow
       /\ pendingTasks # <<>>
       /\ \E c \in CallIds : calls[c].pc = "await"

\* the positions of regLog at which a worker of the role was registered
RegsOf(role) == { k \in 1..Len(regLog) : RoleOf(regLog[k].agent) = role }

\* the worker most recently passed to registerAgent for the role
LastRegistered(role) ==
    IF RegsOf(role) = {} THEN "undefined"
    ELSE regLog[CHOOSE k \in RegsOf(role) : \A j \in RegsOf(role) : j <= k].agent

\* C12: the registry holds at most one worker per role, getAgent yields the
\* worker most recently registered for the role, and getAllAgents yields
\* just those most recent workers: a displaced worker is returned by neither
RegistryOverwrite ==
    /\ \A role \in Roles : getAgent(role) = LastRegistered(role)
    /\ \A i, j \in 1..Len(agents) : agents[i].key = agents[j].key => i = j
    /\ \A k \in 1..Len(agents) : RoleOf(agents[k].value) = agents[k].key
    /\ SeqToSet(getAllAgents)
          = { LastRegistered(role) : role \in Roles } \ {"undefined"}

\* C12 witness: pm-agent-001 was registered, then pm-agent-002 for the same
\* role; getAgent yields the second and getAllAgents does not hold the first
RegistryOverwriteWitness ==
    /\ \E i, j \in 1..Len(regLog) :
          /\ i < j
          /\ regLog[i].agent = "pm-agent-001"
          /\ regLog[j].agent = "pm-agent-002"
    /\ getAgent("ProductManager") = "pm-agent-002"
    /\ "pm-agent-001" \notin SeqToSet(getAllAgents)
    /\ Len(getAllAgents) = 2

\* the positions of regLog at which worker w was registered
RegsOfWorker(w) == { k \in 1..Len(regLog) : regLog[k].agent = w }

Min(S) == CHOOSE x \in S : \A y \in S : x <= y
Max(S) == CHOOSE x \in S : \A y \in S : y <= x

\* the workers registered now: the most recent one of every registered role
CurrentWorkers == { LastRegistered(role) : role \in Roles } \ {"undefined"}

\* C13, as claimed: getAllAgents holds the workers registered now, each once,
\* in the order in which those workers were registered (a worker listed
\* before another has a registration that precedes one of the other's)
ListedInRegistrationOrder ==
    /\ SeqToSet(getAllAgents) = CurrentWorkers
    /\ Len(getAllAgents) = Cardinality(CurrentWorkers)
    /\ \A i, j \in 1..Len(getAllAgents) :
          i < j => Min(RegsOfWorker(getAllAgents[i]))
                      < Max(RegsOfWorker(getAllAgents[j]))

\* C13, amended: getAllAgents holds the workers registered now, each once,
\* in the order in which their roles were first registered: a worker that
\* displaces another takes the place the role had in the list
ListedInRoleOrder ==
    /\ SeqToSet(getAllAgents) = CurrentWorkers
    /\ Len(getAllAgents) = Cardinality(CurrentWorkers)
    /\ \A i, j \in 1..Len(getAllAgents) :
          i < j => Min(RegsOf(RoleOf(getAllAgents[i])))
                      < Min(RegsOf(RoleOf(getAllAgents[j])))

\* C13 witness: pm-agent-001, qa-agent-001 and pm-agent-002 were registered
\* in this order, and pm-agent-002 is listed before qa-agent-001
ListedInRoleOrderWitness ==
    /\ [ k \in 1..Len(regLog) |-> regLog[k].agent ]
          = << "pm-agent-001", "qa-agent-001", "pm-agent-002" >>
    /\ getAllAgents = << "pm-agent-002", "qa-agent-001" >>

\* a routeMessage call is made in this step
Routes == nRouted' = nRouted + 1

\* C14: the message history holds one entry per routeMessage call, in call
\* order, whether or not a recipient is registered; no step removes or
\* reorders an entry
HistoryInCallOrder ==
    /\ [](/\ Len(messageHistory) = nRouted
          /\ \A k \in 1..Len(messageHistory) : messageHistory[k].id = k)
    /\ [][ /\ Len(messageHistory') >= Len(messageHistory)
           /\ SubSeq(messageHistory', 1, Len(messageHistory)) = messageHistory
       ]_vars

\* C14 witness: two messages in the history; the first went to the one
\* registered recipient, the second was addressed to QA alone, whose worker
\* was never registered
HistoryInCallOrderWitness ==
    /\ Len(messageHistory) = 2
    /\ ~agentContext["qa-agent-001"].bound
    /\ messageHistory[1].to = << "ProductManager", "QA" >>
    /\ messageHistory[2].to = << "QA" >>
    /\ \E w \in Workers : getMessages(w) = << messageHistory[1] >>

\* C15: a worker's queue holds messages addressed to its role in the order
\* of their routeMessage calls, and when a routeMessage call returns the
\* message is the newest entry in the queue of every registered recipient
MailboxFifo ==
    /\ [](\A w \in Workers :
            /\ \A i, j \in 1..Len(getMessages(w)) :
                  i < j => getMessages(w)[i].id <= getMessages(w)[j].id
            /\ \A k \in 1..Len(getMessages(w)) :
                  /\ RoleOf(w) \in SeqToSet(getMessages(w)[k].to)
                  /\ getMessages(w)[k] \in SeqToSet(messageHistory))
    /\ [][ Routes /\ messageHistory' # <<>> =>
             \A role \in SeqToSet(Last(messageHistory').to) :
                getAgent(role) # "undefined" =>
                   /\ messageQueue'[getAgent(role)] # <<>>
                   /\ Last(messageQueue'[getAgent(role)]) = Last(messageHistory')
       ]_vars

\* C15 witness: both routed messages are in the queue of the QA worker, the
\* earlier one first
MailboxFifoWitness ==
    /\ Len(getMessages("qa-agent-001")) = 2
    /\ getMessages("qa-agent-001")[1].id = 1
    /\ getMessages("qa-agent-001")[2].id = 2
    /\ getMessages("qa-agent-001")[2].to = << "ProductManager", "QA" >>

\* C16: a routeMessage call appends the message to the history and to the
\* queue of the worker registered for each recipient role, also when other
\* recipient roles have no worker; the queue of a worker that is not
\* registered for a recipient role is left as it is
UnregisteredRecipientSkipped ==
    [][ Routes /\ Len(messageHistory') = Len(messageHistory) + 1 =>
          LET message == Last(messageHistory')
          IN  /\ messageHistory' = Append(messageHistory, message)
              /\ \A w \in Workers :
                    IF getAgent(RoleOf(w)) = w /\ RoleOf(w) \in SeqToSet(message.to)
                    THEN /\ Len(messageQueue'[w]) > Len(messageQueue[w])
                         /\ SubSeq(messageQueue'[w], 1, Len(messageQueue[w]))
                               = messageQueue[w]
                         /\ Last(messageQueue'[w]) = message
                    ELSE messageQueue'[w] = messageQueue[w] ]_vars

\* C16 witness: a message addressed to ProductManager and QA was routed
\* while no ProductManager worker had ever been registered; it is in the
\* history and in the queue of the QA worker
UnregisteredRecipientSkippedWitness ==
    /\ \A w \in Workers : RoleOf(w) = "ProductManager" => ~agentContext[w].bound
    /\ \E k \in 1..Len(messageHistory) :
          /\ messageHistory[k].to = << "ProductManager", "QA" >>
          /\ messageHistory[k] \in SeqToSet(getMessages("qa-agent-001"))

\* the entries of a call's visited list whose agent returned a response
IsOk(v) == v.outcome = "ok"
Responded(c) == SelectSeq(calls[c].visited, IsOk)

\* C17: a role without an agent gets no response and no shared-context
\* entry, and it does not stop the call: the responses of a call are those
\* of the roles whose agent returned one, a returned call has visited every
\* assigned role, every role that had an agent was invoked, and the step
\* that passes over a role leaves the value under task_<id>_<role> alone
MissingWorkerSkipped ==
    /\ [](\A c \in CallIds :
            /\ AgentRolesOf(calls[c].responses) = RolesOf(Responded(c))
            /\ \A k \in 1..Len(calls[c].visited) :
                  (calls[c].visited[k].outcome = "skipped")
                     = (calls[c].visited[k].agent = "undefined")
            /\ calls[c].pc = "done" =>
                  RolesOf(calls[c].visited) = tasks[calls[c].task].assignedTo)
    /\ [][ \A c \in 1..Len(calls') :
             \A k \in 1..Len(calls'[c].visited) :
                ( /\ calls'[c].visited[k].outcome = "skipped"
                  /\ (c > Len(calls) \/ k > Len(calls[c].visited)) ) =>
                   LET key == TaskKey(tasks'[calls'[c].task].id,
                                      calls'[c].visited[k].role)
                   IN  MapGet(sharedContext', key) = MapGet(sharedContext, key)
       ]_vars

\* C17 witness: a returned call on a task assigned to ProductManager and QA
\* with only a QA worker registered: ProductManager was passed over, QA
\* responded, and only QA's key is in the shared context
MissingWorkerSkippedWitness ==
    \E c \in CallIds :
       /\ calls[c].pc = "done"
       /\ Len(calls[c].visited) = 2
       /\ calls[c].visited[1].role = "ProductManager"
       /\ calls[c].visited[1].outcome = "skipped"
       /\ calls[c].visited[2].outcome = "ok"
       /\ AgentRolesOf(calls[c].responses) = << "QA" >>
       /\ TaskKey(tasks[calls[c].task].id, "ProductManager")
             \notin DOMAIN sharedContext
       /\ TaskKey(tasks[calls[c].task].id, "QA") \in DOMAIN sharedContext

\* C18: a createTask call makes a new Task object with status Pending and
\* an id that no task made before has, appends it at the end of
\* pendingTasks, and leaves completedTasks and every existing task as they
\* were
CreateAppendsFreshPending ==
    [][ nCreated' = nCreated + 1 =>
          /\ pendingTasks' # <<>>
          /\ LET ref == Last(pendingTasks')
             IN  /\ pendingTasks' = Append(pendingTasks, ref)
                 /\ ref \notin DOMAIN tasks
                 /\ tasks'[ref].status = Pending
                 /\ \A t \in DOMAIN tasks :
                       /\ tasks'[ref].id # tasks[t].id
                       /\ tasks'[t] = tasks[t]
          /\ completedTasks' = completedTasks ]_vars

\* C18 witness: three tasks were created; the first is completed, the
\* other two are pending in creation order, with ids of their own
CreateAppendsFreshPendingWitness ==
    /\ nCreated = 3
    /\ completedTasks = << Uuid(1) >>
    /\ pendingTasks = << Uuid(2), Uuid(3) >>
    /\ tasks[Uuid(3)].status = Pending
    /\ Cardinality({ tasks[t].id : t \in CreatedTasks }) = 3

\* the executeTask calls of run r whose agent.execute is under way
InFlight(r) == { c \in CallIds : calls[c].owner = r /\ calls[c].pc = "await" }

SeenBy(w) ==
    IF agentContext[w].byRef THEN sharedContext ELSE agentContext[w].copy

\* C20: every worker that was passed to registerAgent has a shared context,
\* and what it reads through it is at every moment what the coordinator's
\* mapping holds: the writes made before its registration and those made
\* after it
SharedByReference ==
    \A w \in Workers :
       /\ agentContext[w].bound = (RegsOfWorker(w) # {})
       /\ agentContext[w].bound =>
             /\ DOMAIN SeenBy(w) = DOMAIN sharedContext
             /\ \A key \in DOMAIN sharedContext :
                   SeenBy(w)[key] = getSharedContextValue(key)

\* C20 witness: one worker was registered before the client's write and
\* another after it, and both read the written value
SharedByReferenceWitness ==
    \E v, w \in Workers :
       /\ agentContext[v].bound /\ \A k \in RegsOfWorker(v) : regLog[k].keys = 0
       /\ agentContext[w].bound /\ \A k \in RegsOfWorker(w) : regLog[k].keys = 1
       /\ \E key \in ClientKeys :
             /\ key \in DOMAIN SeenBy(v) /\ SeenBy(v)[key] = ClientValue("v")
             /\ key \in DOMAIN SeenBy(w) /\ SeenBy(w)[key] = ClientValue("v")

\* the place of a status on the path Pending -> InProgress -> Completed
Rank(status) == IF status = Pending THEN 0 ELSE IF status = InProgress THEN 1 ELSE 2

WithAgent(t) ==
    { k \in 1..Len(tasks[t].assignedTo) : getAgent(tasks[t].assignedTo[k]) # "undefined" }

Stores == budget'.storeArtifact < budget.storeArtifact

\* C23: no artifact is held at the start; a storeArtifact(name, content)
\* call makes getArtifact(name) yield content, whatever the name held, and
\* leaves every other name as it was; no other step changes what
\* getArtifact yields, and no step removes a name
ArtifactLastWriteWins ==
    /\ DOMAIN artifacts = {}
    /\ [][ /\ DOMAIN artifacts \subseteq DOMAIN artifacts'
           /\ IF Stores
              THEN /\ MapGet(artifacts', lastArgs'.key) = lastArgs'.value
                   /\ \A name \in ArtifactNames \ {lastArgs'.key} :
                         /\ (name \in DOMAIN artifacts') = (name \in DOMAIN artifacts)
                         /\ MapGet(artifacts', name) = MapGet(artifacts, name)
              ELSE artifacts' = artifacts ]_vars

\* C23 witness: all three storeArtifact calls were made on the name design;
\* getArtifact(design) yields the content of the latest call and
\* getArtifact(code) yields undefined; a task was executed meanwhile
ArtifactLastWriteWinsWitness ==
    /\ budget.storeArtifact = 0
    /\ DOMAIN artifacts = {"design"}
    /\ lastArgs = [ key |-> "design", value |-> ClientValue("v2") ]
    /\ getArtifact("design") = ClientValue("v2")
    /\ getArtifact("code") = Undefined
    /\ completedTasks # <<>>

\* the writes to the shared context made in this step, as pairs of key and
\* value: that of an updateSharedContext call, that of an executeTask call
\* whose response list grows, those of a run whose stages end
StepWrites ==
    { << lastArgs'.key, lastArgs'.value >> : x \in
         { y \in {1} : budget'.updateSharedContext < budget.updateSharedContext } }
    \cup
    { << TaskKey(tasks'[calls'[c].task].id, Last(calls'[c].responses).agentRole),
         ResponseValue(Last(calls'[c].responses)) >> : c \in
         { d \in 1..Len(calls') :
              Len(calls'[d].responses)
                 > (IF d <= Len(calls) THEN Len(calls[d].responses) ELSE 0) } }
    \cup
    UNION { { << StageKey(runs'[r].iterated[j].id),
                 ListValue(ResultFor(runs'[r], runs'[r].iterated[j].id)) >> : j \in
              { k \in Ended(runs'[r]) : r > Len(runs) \/ k \notin Ended(runs[r]) } } :
            r \in 1..Len(runs') }

\* C24: the shared context is empty at the start; after a step that writes
\* a key, be it updateSharedContext, executeTask or executeWorkflow,
\* getSharedContextValue yields the value written, whatever the key held; a
\* key that the step does not write keeps its value, and stays absent when
\* it was absent
SharedContextLastWriteWins ==
    /\ DOMAIN sharedContext = {}
    /\ [][ /\ \A w \in StepWrites : MapGet(sharedContext', w[1]) = w[2]
           /\ \A key \in (DOMAIN sharedContext \cup DOMAIN sharedContext')
                          \ { w[1] : w \in StepWrites } :
                 /\ key \in DOMAIN sharedContext
                 /\ key \in DOMAIN sharedContext'
                 /\ sharedContext'[key] = sharedContext[key] ]_vars

\* C24 witness: the client's latest write went to the key of stage-001's
\* results, which now holds the list the run stored when the stage ended;
\* the key of QA's response to task-002 holds a client's value although a
\* call on task-002 has stored a response there; the key of a role without
\* an agent is absent
SharedContextLastWriteWinsWitness ==
    /\ lastArgs.key = "stage_stage-001_results"
    /\ getSharedContextValue("stage_stage-001_results").kind = "AgentResponse[]"
    /\ getSharedContextValue("stage_stage-001_results").items # <<>>
    /\ getSharedContextValue("task_task-002_QA").kind = "value"
    /\ \E c \in CallIds :
          calls[c].task = "q2" /\ calls[c].pc = "done" /\ calls[c].responses # <<>>
    /\ getSharedContextValue("task_task-001_ProductManager") = Undefined

\* s is an initial segment of t
IsPrefix(s, t) == Len(s) <= Len(t) /\ SubSeq(t, 1, Len(s)) = s

\* C25: a defineWorkflow call makes the workflow it builds, with a fresh id
\* and the stages it was given, the current one in the place of whatever
\* was current, and nothing else changes the current workflow; a run takes
\* the workflow current at its start, and as long as defineWorkflow is not
\* called while it is under way it dispatches the tasks of that
\* workflow's stages, in their order, and nothing else
DefineReplaces ==
    /\ [][ IF nDefines' = nDefines + 1
           THEN /\ getCurrentWorkflow'.id = nDefines'
                /\ getCurrentWorkflow'.id # getCurrentWorkflow.id
                /\ getCurrentWorkflow'.stages \in WorkflowDefs
           ELSE getCurrentWorkflow' = getCurrentWorkflow ]_vars
    /\ [][ \A r \in 1..Len(runs') :
             (r > Len(runs) /\ runs'[r].pc # "rejected") =>
                /\ runs'[r].startId = getCurrentWorkflow.id
                /\ runs'[r].startStages = getCurrentWorkflow.stages ]_vars
    /\ [](\A r \in RunIds :
            ~runs[r].redefined =>
               /\ IsPrefix(runs[r].dispatched, TasksOf(runs[r].startStages))
               /\ runs[r].pc = "done" =>
                     runs[r].dispatched = TasksOf(runs[r].startStages))

\* C25 witness: defineWorkflow was called twice, the second time with the
\* stages that hold task-002 before task-001; the current workflow is the
\* second one and a run started on it has dispatched task-002, then task-001
DefineReplacesWitness ==
    /\ nDefines = 2
    /\ getCurrentWorkflow.id = 2
    /\ \E r \in RunIds :
          /\ runs[r].startId = 2
          /\ runs[r].pc = "done"
          /\ runs[r].dispatched = << "q2", "q1" >>
          /\ runs[r].dispatched = TasksOf(getCurrentWorkflow.stages)

\* the executeTask calls of run r, in the order in which the run made them
RECURSIVE CallsFrom(_, _)
CallsFrom(r, c) ==
    IF c > Len(calls) THEN <<>>
    ELSE IF calls[c].owner = r THEN << c >> \o CallsFrom(r, c + 1)
    ELSE CallsFrom(r, c + 1)

\* the number of tasks in the first n stages of a list
RECURSIVE TasksBefore(_, _)
TasksBefore(stages, n) ==
    IF n = 0 THEN 0 ELSE TasksBefore(stages, n - 1) + Len(stages[n].tasks)

\* the response lists returned by the calls cs[from..to], one after another
RECURSIVE ResponsesOfCalls(_, _, _)
ResponsesOfCalls(cs, from, to) ==
    IF from > to THEN <<>>
    ELSE calls[cs[from]].responses \o ResponsesOfCalls(cs, from + 1, to)

\* what the executeTask calls of run r for the tasks of its j-th stage
\* returned, in the order of the tasks
StageConcat(r, j) ==
    ResponsesOfCalls(CallsFrom(r, 1),
              TasksBefore(runs[r].iterated, j - 1) + 1,
              TasksBefore(runs[r].iterated, j))

\* C26: for every ended stage of a run, the list the run's result map holds
\* under the stage's id is the concatenation, in the order of the stage's
\* tasks, of the lists the executeTask calls for these tasks returned, the
\* calls having been made on these tasks in this order; and the step that
\* ends the stage stores this very list under stage_<id>_results
StageResultIsConcat ==
    /\ [](\A r \in RunIds : \A j \in Ended(runs[r]) :
            /\ ResultFor(runs[r], runs[r].iterated[j].id) = StageConcat(r, j)
            /\ \A k \in 1..Len(runs[r].iterated[j].tasks) :
                  calls[CallsFrom(r, 1)[TasksBefore(runs[r].iterated, j - 1) + k]].task
                     = runs[r].iterated[j].tasks[k])
    /\ [][ \A r \in 1..Len(runs') :
             \A j \in Ended(runs'[r]) :
                (r > Len(runs) \/ j \notin Ended(runs[r])) =>
                   MapGet(sharedContext', StageKey(runs'[r].iterated[j].id))
                     = ListValue((StageConcat(r, j))') ]_vars

\* C26 witness: a run has ended the stage that holds task-002 and task-001;
\* its result and the shared context hold QA's response to task-002
\* followed by the ProductManager's and QA's responses to task-001
StageResultIsConcatWitness ==
    \E r \in RunIds :
       /\ runs[r].pc = "done"
       /\ \E j \in Ended(runs[r]) :
             /\ runs[r].iterated[j].tasks = << "q2", "q1" >>
             /\ LET list == ResultFor(runs[r], runs[r].iterated[j].id)
                IN  /\ [ k \in 1..Len(list) |-> list[k].taskId ]
                         = << "task-002", "task-001", "task-001" >>
                    /\ AgentRolesOf(list) = << "QA", "ProductManager", "QA" >>
                    /\ getSharedContextValue(StageKey(runs[r].iterated[j].id))
                         = ListValue(list)

OutcomesOf(r) ==
    LET cs == CallsFrom(r, 1)
    IN  [ k \in 1..Len(cs) |-> calls[cs[k]].visited ]

\* an AgentResponse without the identity of the object
Content(resp) ==
    [ agentId |-> resp.agentId, agentRole |-> resp.agentRole,
      taskId |-> resp.taskId, confidence |-> resp.confidence,
      errors |-> resp.errors ]

\* the result map of a run, its responses taken by content
ResultMap(run) ==
    [ k \in 1..Len(run.workflowResults) |->
        [ key |-> run.workflowResults[k].key,
          value |-> [ n \in 1..Len(run.workflowResults[k].value) |->
                        Content(run.workflowResults[k].value[n]) ] ] ]

\* runs that have returned from one and the same workflow, not replaced
\* meanwhile, with the same outcomes of the worker invocations
SameInputs(r1, r2) ==
    /\ runs[r1].pc = "done" /\ runs[r2].pc = "done"
    /\ ~runs[r1].redefined /\ ~runs[r2].redefined
    /\ runs[r1].startStages = runs[r2].startStages
    /\ OutcomesOf(r1) = OutcomesOf(r2)

\* C28: two runs of the same workflow whose worker invocations had the same
\* outcomes have written the same shared-context keys in the same order and
\* have returned equal result maps, whatever else the coordinator held when
\* each of them started
RunsDeterministic ==
    \A r1 \in RunIds : \A r2 \in RunIds :
       SameInputs(r1, r2) =>
          /\ runs[r1].writes = runs[r2].writes
          /\ ResultMap(runs[r1]) = ResultMap(runs[r2])

\* C28 witness: two runs of the two-task stage have returned after the same
\* outcomes, one worker having rejected an invocation, and each of them has
\* written a task key and the keys of both stages
RunsDeterministicWitness ==
    /\ Len(runs) = 2
    /\ SameInputs(1, 2)
    /\ \E k \in 1..Len(OutcomesOf(1)) :
          \E n \in 1..Len(OutcomesOf(1)[k]) : OutcomesOf(1)[k][n].outcome = "throw"
    /\ \E k \in 1..Len(OutcomesOf(1)) :
          \E n \in 1..Len(OutcomesOf(1)[k]) : OutcomesOf(1)[k][n].outcome = "ok"
    /\ Len(runs[2].writes) >= 3
    /\ Last(runs[2].writes) = StageKey("stage-004")

\* a sequence without the entries equal to x, the others in their order
Without(seq, x) == SelectSeq(seq, LAMBDA y : y # x)

\* C29: when an executeTask call on a task held in pendingTasks returns,
\* pendingTasks loses that one entry and becomes one shorter,
\* completedTasks gets the task appended at its end, and every other entry
\* of either collection stays where it was relative to the others
MovesExactlyThatTask ==
    [][ \A c \in 1..Len(calls') :
          (Returns(c) /\ calls'[c].task \in SeqToSet(pendingTasks)) =>
             /\ pendingTasks' = Without(pendingTasks, calls'[c].task)
             /\ Len(pendingTasks') = Len(pendingTasks) - 1
             /\ completedTasks' = Append(completedTasks, calls'[c].task) ]_vars

\* C29 witness: of three pending tasks the second was executed and then the
\* third: the first alone is pending, and the other two are completed in the
\* order of their calls
MovesExactlyThatTaskWitness ==
    /\ nCreated = 3
    /\ pendingTasks = << Uuid(1) >>
    /\ completedTasks = << Uuid(2), Uuid(3) >>
    /\ Len(calls) = 2
    /\ calls[1].task = Uuid(2) /\ calls[1].pc = "done"
    /\ calls[2].task = Uuid(3) /\ calls[2].pc = "done"
    /\ tasks[Uuid(1)].status = Pending
    /\ tasks[Uuid(2)].status = Completed

\* the step belongs to an executeTask call: the call starts, or goes on after
\* the worker it awaited has resolved or rejected
ExecuteTaskStep == calls' # calls

\* the shared-context keys whose entry the step makes or changes
KeysWritten ==
    { key \in DOMAIN sharedContext' :
         key \notin DOMAIN sharedContext \/ sharedContext'[key] # sharedContext[key] }

\* C30: a step of an executeTask call writes no shared-context key but the
\* key of the task and role whose worker has just resolved, with the
\* response it returned; it removes no key and leaves the registry, the
\* worker's context, the artifact store and the task queue as they were;
\* pendingTasks and completedTasks change only in the step in which the call
\* returns, and only by the call's own task; while a call awaits a worker,
\* no other step writes the key of the awaited role of that task, a client's
\* updateSharedContext apart
OnlySucceededRoleKeys ==
    /\ [][ ExecuteTaskStep =>
             /\ DOMAIN sharedContext \subseteq DOMAIN sharedContext'
             /\ \A key \in KeysWritten :
                   \E c \in CallIds :
                      /\ calls[c].pc = "await"
                      /\ calls'[c].responses # calls[c].responses
                      /\ calls'[c].visited[Len(calls[c].visited) + 1].outcome = "ok"
                      /\ key = TaskKey(tasks[calls[c].task].id,
                            calls'[c].visited[Len(calls[c].visited) + 1].role)
                      /\ sharedContext'[key]
                            = ResponseValue(Last(calls'[c].responses))
             /\ agents' = agents
             /\ agentContext' = agentContext
             /\ artifacts' = artifacts
             /\ taskQueue' = taskQueue
             /\ IF \E c \in 1..Len(calls') : Returns(c)
                THEN \E c \in 1..Len(calls') :
                        /\ Returns(c)
                        /\ Without(pendingTasks', calls'[c].task)
                              = Without(pendingTasks, calls'[c].task)
                        /\ completedTasks' = Append(completedTasks, calls'[c].task)
                ELSE /\ pendingTasks' = pendingTasks
                     /\ completedTasks' = completedTasks ]_vars
    /\ [][ (~ExecuteTaskStep /\ budget'.updateSharedContext = budget.updateSharedContext)
             => sharedContext' = sharedContext ]_vars

\* C30 witness: a returned call on a created task whose ProductManager
\* worker rejected and whose QA worker resolved; QA's key holds QA's
\* response, the ProductManager's key is not in the shared context, and the
\* two workers are registered as before
OnlySucceededRoleKeysWitness ==
    \E c \in CallIds :
       /\ calls[c].pc = "done"
       /\ calls[c].task \in CreatedTasks
       /\ \E k \in 1..Len(calls[c].visited) :
             /\ calls[c].visited[k].role = "ProductManager"
             /\ calls[c].visited[k].outcome = "throw"
       /\ \E k \in 1..Len(calls[c].visited) :
             /\ calls[c].visited[k].role = "QA"
             /\ calls[c].visited[k].outcome = "ok"
       /\ getSharedContextValue(TaskKey(tasks[calls[c].task].id, "QA"))
             = ResponseValue(Last(calls[c].responses))
       /\ TaskKey(tasks[calls[c].task].id, "ProductManager")
             \notin DOMAIN sharedContext
       /\ Cardinality(DOMAIN sharedContext) = 1
       /\ Len(getAllAgents) = 2

\* the step is a routeMessage call
Routing == nRouted' = nRouted + 1

\* the registered workers whose role the message names
Recipients(message) ==
    { getAgent(message.to[k]) : k \in 1..Len(message.to) } \ {"undefined"}

\* C31: a routeMessage call appends the message to the history, changes the
\* queues of the registered recipients only, and leaves the registry, the
\* tasks and their statuses, pendingTasks, completedTasks, the shared
\* context, the artifacts, the workers' contexts and the executeTask calls
\* under way as they were
RouteMessageFrame ==
    [][ Routing =>
          /\ messageHistory' = Append(messageHistory, Last(messageHistory'))
          /\ \A w \in Workers :
                IF w \in Recipients(Last(messageHistory'))
                THEN messageQueue'[w] # messageQueue[w]
                ELSE messageQueue'[w] = messageQueue[w]
          /\ agents' = agents
          /\ tasks' = tasks
          /\ taskQueue' = taskQueue
          /\ pendingTasks' = pendingTasks
          /\ completedTasks' = completedTasks
          /\ sharedContext' = sharedContext
          /\ artifacts' = artifacts
          /\ agentContext' = agentContext
          /\ calls' = calls ]_vars

\* C31 witness: a call that passed over the ProductManager, then not yet
\* registered, still awaits the QA worker; meanwhile the ProductManager was
\* registered and two messages were routed, the first to both roles and the
\* second to QA alone: the ProductManager's queue holds the first only, the
\* task is in progress and pending, and the shared context is empty
RouteMessageFrameWitness ==
    /\ Len(calls) = 1
    /\ calls[1].pc = "await"
    /\ calls[1].agent = "qa-agent-001"
    /\ RolesOf(calls[1].visited) = << "ProductManager" >>
    /\ calls[1].visited[1].outcome = "skipped"
    /\ nRouted = 2
    /\ messageHistory = << Message(1, << "ProductManager", "QA" >>),
                           Message(2, << "QA" >>) >>
    /\ getMessages("pm-agent-001") = << Message(1, << "ProductManager", "QA" >>) >>
    /\ Len(getMessages("qa-agent-001")) = 2
    /\ tasks[calls[1].task].status = InProgress
    /\ pendingTasks = << calls[1].task >>
    /\ completedTasks = <<>>
    /\ DOMAIN sharedContext = {}

\* C32: the execute of a built-in agent never rejects: every invocation a
\* call has made and seen settle gave a response, and the response carries
\* the role and id of the agent invoked and the id of the task, with either
\* no error list and a confidence above 0, or confidence 0 and an error
\* list holding the failure
BuiltinNeverRejects ==
    \A c \in CallIds :
       /\ calls[c].pc # "rejected"
       /\ \A k \in 1..Len(calls[c].visited) :
             calls[c].visited[k].outcome \in {"ok", "skipped"}
       /\ Len(calls[c].responses) = Len(Invoked(c))
       /\ \A k \in 1..Len(calls[c].responses) :
             LET response == calls[c].responses[k]
             IN  /\ response.agentRole = Invoked(c)[k].role
                 /\ response.agentId = Invoked(c)[k].agent
                 /\ response.taskId = tasks[calls[c].task].id
                 /\ \/ response.errors = <<>> /\ response.confidence > 0
                    \/ response.errors # <<>> /\ response.confidence = 0

\* C32 witness: a returned call whose ProductManager agent failed in its
\* analysis and whose QA agent did not: the first response has confidence 0
\* and an error list, the second has no error list, and the task is
\* completed
BuiltinNeverRejectsWitness ==
    \E c \in CallIds :
       /\ calls[c].pc = "done"
       /\ AgentRolesOf(calls[c].responses) = << "ProductManager", "QA" >>
       /\ calls[c].responses[1].confidence = 0
       /\ calls[c].responses[1].errors # <<>>
       /\ calls[c].responses[2].errors = <<>>
       /\ calls[c].responses[2].taskId = tasks[calls[c].task].id
       /\ tasks[calls[c].task].status = Completed

\* the runs that have started on a defined workflow and have not returned
Unreturned == { r \in RunIds : runs[r].pc \notin {"done", "rejected"} }

Invokes(c) ==
    /\ calls'[c].pc = "await"
    /\ (c > Len(calls) \/ calls[c].i # calls'[c].i)

RunKeepsItsWorkflow ==
    \A r \in RunIds :
       /\ IsPrefix(runs[r].iterated, runs[r].startStages)
       /\ runs[r].pc = "done" => runs[r].iterated = runs[r].startStages
       /\ SeqToSet(EntryKeys(runs[r].workflowResults))
             \subseteq SeqToSet(StageIds(runs[r].startStages))

\* C36, as claimed: every task in completedTasks has status Completed and
\* every task in pendingTasks has status Pending or InProgress
CollectionsMatchStatus ==
    /\ \A k \in 1..Len(completedTasks) :
          tasks[completedTasks[k]].status = Completed
    /\ \A k \in 1..Len(pendingTasks) :
          tasks[pendingTasks[k]].status \in {Pending, InProgress}

\* C36, amended: every task in pendingTasks has status Pending or
\* InProgress; every task in completedTasks has status Completed, or
\* InProgress while a further executeTask call on it, begun after it was
\* completed, has not returned
CollectionsMatchStatusOrRerun ==
    /\ \A k \in 1..Len(pendingTasks) :
          tasks[pendingTasks[k]].status \in {Pending, InProgress}
    /\ \A k \in 1..Len(completedTasks) :
          LET t == completedTasks[k]
          IN  \/ tasks[t].status = Completed
              \/ /\ tasks[t].status = InProgress
                 /\ \E c \in CallIds : calls[c].task = t /\ calls[c].pc = "await"
                 /\ \E c \in CallIds : calls[c].task = t /\ calls[c].pc = "done"

\* C36 witness: a created task sits in completedTasks once while a second
\* call on it, past its first role, awaits a worker: its status is
\* InProgress, and pendingTasks is empty
CollectionsMatchStatusOrRerunWitness ==
    \E t \in CreatedTasks :
       /\ completedTasks = << t >>
       /\ pendingTasks = <<>>
       /\ tasks[t].status = InProgress
       /\ Len(calls) = 2
       /\ calls[1].task = t /\ calls[1].pc = "done"
       /\ calls[2].task = t /\ calls[2].pc = "await" /\ calls[2].i = 2

\* C37, as claimed: a routeMessage call makes the queue of every registered
\* recipient one message longer, however often message.to names its role,
\* and leaves the length of every other queue
OneCopyPerRecipient ==
    [][ Routing =>
          \A w \in Workers :
             Len(messageQueue'[w]) =
                Len(messageQueue[w])
                  + (IF w \in Recipients(Last(messageHistory')) THEN 1 ELSE 0) ]_vars

\* C38: a task built by the caller for a workflow stage is never in
\* pendingTasks; a step of an executeTask call made by a run leaves
\* pendingTasks as it is and changes completedTasks only when the call
\* returns, by appending the call's task; the calls of a run are on the
\* tasks it dispatched, in that order, each returned before the next is
\* made, so that a stage task occurs in completedTasks once per returned
\* call on it; and a run that returns, the workflow not having been
\* replaced meanwhile, has dispatched the tasks of its stages in order
StageTasksBypassPending ==
    /\ [](\A q \in StageTasks :
            /\ q \notin SeqToSet(pendingTasks)
            /\ Count(completedTasks, q) = Returned(q))
    /\ [](\A r \in RunIds :
            LET cs == CallsFrom(r, 1)
            IN  /\ Len(cs) = Len(runs[r].dispatched)
                /\ \A k \in 1..Len(cs) :
                      /\ calls[cs[k]].task = runs[r].dispatched[k]
                      /\ (k < Len(cs) \/ runs[r].pc = "done")
                            => calls[cs[k]].pc = "done"
                /\ (runs[r].pc = "done" /\ ~runs[r].redefined)
                      => runs[r].dispatched = TasksOf(runs[r].startStages))
    /\ [][ \A c \in 1..Len(calls') :
             (calls'[c].owner # 0 /\ (c > Len(calls) \/ calls'[c] # calls[c])) =>
                /\ pendingTasks' = pendingTasks
                /\ completedTasks' =
                      IF Returns(c) THEN Append(completedTasks, calls'[c].task)
                      ELSE completedTasks ]_vars

\* C38 witness: a run of the stage with two tasks has returned while a task
\* made by createTask is still pending: pendingTasks holds that task alone,
\* as before the run, and completedTasks holds the two stage tasks in the
\* order of their dispatch
StageTasksBypassPendingWitness ==
    /\ Len(runs) = 1
    /\ runs[1].pc = "done"
    /\ ~runs[1].redefined
    /\ runs[1].dispatched = << "q2", "q1" >>
    /\ completedTasks = << "q2", "q1" >>
    /\ Len(pendingTasks) = 1
    /\ pendingTasks[1] \in CreatedTasks
    /\ tasks[pendingTasks[1]].status = Pending

\* the ids of the tasks a list of stages names, in the order of declaration
TaskIdsOf(stages) ==
    [ k \in 1..Len(TasksOf(stages)) |-> tasks[TasksOf(stages)[k]].id ]

\* the task ids of the responses of a list
TaskIdsIn(list) == { list[k].taskId : k \in 1..Len(list) }

\* C39: of two orchestrators on one coordinator whose workflows share no
\* task, each executeWorkflow that has returned, however its awaits were
\* interleaved with the other's, iterated the stages of its own workflow and
\* called executeTask on its own tasks in the order of declaration; its map
\* has one entry per own stage, in order, holding the concatenation of what
\* its own calls for the stage's tasks returned, all of them responses to
\* tasks of that stage; and each of its tasks is Completed and is in
\* completedTasks exactly once and not in pendingTasks
PeersKeepApart ==
    \A r \in RunIds :
       runs[r].pc = "done" =>
          /\ runs[r].startStages = WorkflowOf(runs[r].orch).stages
          /\ runs[r].iterated = runs[r].startStages
          /\ runs[r].dispatched = TasksOf(runs[r].startStages)
          /\ [ k \in 1..Len(CallsFrom(r, 1)) |-> calls[CallsFrom(r, 1)[k]].task ]
                = TasksOf(runs[r].startStages)
          /\ [ k \in 1..Len(runs[r].workflowResults) |->
                  runs[r].workflowResults[k].key ] = StageIds(runs[r].startStages)
          /\ \A j \in 1..Len(runs[r].startStages) :
                /\ runs[r].workflowResults[j].value = StageConcat(r, j)
                /\ TaskIdsIn(runs[r].workflowResults[j].value)
                      \subseteq { tasks[t].id :
                                    t \in SeqToSet(runs[r].startStages[j].tasks) }
          /\ \A t \in SeqToSet(TasksOf(runs[r].startStages)) :
                /\ tasks[t].status = Completed
                /\ Count(completedTasks, t) = 1
                /\ Count(pendingTasks, t) = 0

\* C39 witness: both orchestrators' runs have returned after their
\* executeTask calls alternated (the peer's first call was made between the
\* two calls of the other run, and its second call after them), each map
\* holding the responses to its own tasks, and the four tasks are completed
PeersKeepApartWitness ==
    /\ Len(runs) = 2
    /\ \A r \in RunIds : runs[r].pc = "done"
    /\ Len(calls) = 4
    /\ [ c \in 1..4 |-> runs[calls[c].owner].orch ] = << 1, 2, 1, 2 >>
    /\ \E r \in RunIds :
          /\ runs[r].orch = 2
          /\ [ k \in 1..Len(runs[r].workflowResults[1].value) |->
                  runs[r].workflowResults[1].value[k].taskId ]
                = << "task-004", "task-003" >>
    /\ \E r \in RunIds :
          /\ runs[r].orch = 1
          /\ [ k \in 1..Len(runs[r].workflowResults[1].value) |->
                  runs[r].workflowResults[1].value[k].taskId ]
                = << "task-001", "task-001" >>
    /\ Len(completedTasks) = 4

====
